---- MODULE Spec2Model ----
(***************************************************************************)
(* Streaming enrichment pipeline of the news project: the article store    *)
(* (newsbot/storage.py), the synchronous Kafka scraper consumer            *)
(* (newsbot/kafka_scraper_consumer.py) and the async one                   *)
(* (newsbot/kafka_scraper_async_consumer.py), each reading one partition   *)
(* of the raw-items topic, and the RSS producer (kafka/kafka_producer.py). *)
(***************************************************************************)
EXTENDS Integers, Sequences, FiniteSets, TLC

(***************************************************************************)
(* Bounds of the model.                                                    *)
(***************************************************************************)
\* number of messages in the raw-items partition
MaxLog == 2
\* number of times the consumer process is started again after it stopped
MaxRestarts == 1
\* number of direct save_article calls in the storage specification
MaxCalls == 2
\* number of messages in the partition of the crash-and-replay specification
ReplayLen == 1
\* the CONCURRENCY setting of the async consumer (environment, default 5)
CONCURRENCY == 2
\* number of articles one fetch returns to produce_batch
MaxRecords == 2
\* number of produce_batch calls
MaxBatches == 2
\* number of 1-second increments of the producer's sleep between two batches
MaxSleep == 2
\* number of articles of one batch fetched by the polling producer
MaxPollRecords == 1

(***************************************************************************)
(* Values.  Python's None and a key missing from a dict are two sentinels; *)
(* the empty string is the TLA+ empty string.                              *)
(***************************************************************************)
None == "<None>"
Absent == "<absent>"

Links == {"L1", "L2"}
\* texts the scrape collaborator can return (cleaned, non-empty)
Contents == {"FULL1", "FULL2"}

\* Python truthiness of an optional string
Truthy(v) == v \notin {None, Absent, ""}

\* dict.get(key) with the default None
Get(d, k) == IF d[k] = Absent THEN None ELSE d[k]

\* dict.get(key, default)
GetOr(d, k, default) == IF d[k] = Absent THEN default ELSE d[k]

(***************************************************************************)
(* NewsStorage.save_article                                                *)
(***************************************************************************)
RequiredFields == {"title", "link", "publish_date", "source", "category", "content"}

\* members of the FullContentStatus enum: SUCCESS and any other member
ValidStatuses == {"SUCCESS", "OTHER"}

\* lines 59-65: FullContentStatus(desired_status), None when absent or unknown
\* (the enum lives in newsbot/models.py; storage.py names its member SUCCESS)
StatusEnum(article) ==
    LET desired == Get(article, "full_content_status")
    IN  IF Truthy(desired) /\ desired \in ValidStatuses THEN desired ELSE None

\* lines 54-58: a required key is missing, the call is skipped
MissingRequired(article) == \E k \in RequiredFields : article[k] = Absent

\* lines 75-86: the row inserted when no row has the link
NewRow(article) ==
    [title |-> article.title,
     link |-> article.link,
     publish_date |-> Get(article, "publish_date"),
     source |-> Get(article, "source"),
     category |-> Get(article, "category"),
     content |-> Get(article, "content"),
     full_content |-> Get(article, "full_content"),
     full_content_status |->
        IF StatusEnum(article) # None THEN StatusEnum(article)
        ELSE IF Truthy(Get(article, "full_content")) THEN "SUCCESS" ELSE None]

\* lines 105-116: a field is overwritten when the new value is truthy and differs
Overwrite(old, new) == IF Truthy(new) /\ new # old THEN new ELSE old

\* lines 118-128: the full content is filled only while the row has none
\* faulty variant: a new non-empty full_content overwrites the stored one
FillFullContentMutOverwrite(existing, article) ==
    LET new_full_content == Get(article, "full_content")
    IN  IF Truthy(new_full_content) THEN new_full_content ELSE existing.full_content

FillFullContent(existing, article) ==
    LET new_full_content == Get(article, "full_content")
    IN  IF Truthy(new_full_content) /\ ~Truthy(existing.full_content)
        THEN new_full_content
        ELSE existing.full_content

\* lines 119-128: the status that goes with FillFullContent
FillStatus(existing, article) ==
    LET new_full_content == Get(article, "full_content")
        status_enum == StatusEnum(article)
    IN  IF Truthy(new_full_content) /\ ~Truthy(existing.full_content)
        THEN (IF status_enum # None THEN status_enum ELSE "SUCCESS")
        ELSE IF status_enum # None /\ existing.full_content_status # status_enum
             THEN status_enum
             ELSE existing.full_content_status

\* lines 100-131: the row after an update of an existing row
UpdatedRow(existing, article) ==
    [title |-> Overwrite(existing.title, Get(article, "title")),
     link |-> existing.link,
     publish_date |-> Overwrite(existing.publish_date, Get(article, "publish_date")),
     source |-> Overwrite(existing.source, Get(article, "source")),
     category |-> Overwrite(existing.category, Get(article, "category")),
     content |-> IF ~Truthy(existing.content) /\ Truthy(Get(article, "content"))
                 THEN Get(article, "content") ELSE existing.content,
     full_content |-> FillFullContent(existing, article),
     full_content_status |-> FillStatus(existing, article)]

\* the call takes effect: no required key is missing and the session commits
Applied(article, dbRaises) == ~MissingRequired(article) /\ ~dbRaises

\* lines 70-72: select(Article).where(Article.link == link)
Matching(st, link) == {r \in st : r.link = link}

\* lines 44-135: the table after save_article(article); dbRaises is a database
\* operation raising inside the session, which rolls the transaction back
\* (scalar_one_or_none raises when several rows match).  The IntegrityError
\* branch of lines 91-98 needs a second writer inserting the link between the
\* select and the flush; this table has one writer, so the flush succeeds.
SaveArticleStore(st, article, dbRaises) ==
    IF ~Applied(article, dbRaises) THEN st
    ELSE LET existing == Matching(st, article.link)
         IN  IF existing = {} THEN st \cup {NewRow(article)}
             ELSE IF Cardinality(existing) = 1
                  THEN (st \ existing) \cup {UpdatedRow(r, article) : r \in existing}
                  ELSE st

\* lines 44-135: the value save_article returns (inserted)
\* faulty variant: True is returned for an update of an existing row as well
SaveArticleResultMutApplied(st, article, dbRaises) == Applied(article, dbRaises)

SaveArticleResult(st, article, dbRaises) ==
    Applied(article, dbRaises) /\ Matching(st, article.link) = {}

EmptyStore == {}

(***************************************************************************)
(* State.                                                                  *)
(***************************************************************************)
VARIABLES
    store,          \* articles table: the set of rows
    hist,           \* storage specification: the save_article calls that took effect
    lastResult,     \* storage specification: value the last save_article returned
    lastCall,       \* history: link and title of the article of the last save_article call
    log,            \* raw-items partition: sequence of message values, offsets 1..Len
    committed,      \* broker: committed offset of the group (next offset to deliver)
    cleaned,        \* cleaned topic: sequence of [key, value]
    alerts,         \* alerts topic: sequence of alert envelopes
    pc,             \* position of the consumer process
    loop_forever,   \* run_consumer argument
    max_messages,   \* run_consumer argument (None is 0: max_messages or 0)
    flag,           \* ShutdownFlag.triggered
    position,       \* consumer: offset the next poll fetches
    processed,      \* run_consumer local
    metrics,        \* CONSUMER_METRICS and PRODUCER_METRICS of the process
    cur,            \* offset of the message being handled (0: none yet)
    enriched,       \* result of enrich_single for the message (None: nothing)
    failCause,      \* the exception that routed the message to the except branch
    snap,           \* history: counters, topics, offset and table when the message was polled
    trace,          \* history: what happened to the message, in order
    outcome,        \* history: latest terminal state of each offset
    startPos,       \* history: position at which this run of the process began
    restarts,       \* history: number of restarts of the process
    replay,         \* history: the message a crash interrupted after its row was saved
    units,          \* async consumer: the process_message task of each offset
    sem,            \* async consumer: free permits of the semaphore
    polled,         \* async consumer: offsets the last getmany returned
    tasks,          \* async consumer: offsets dispatched as tasks from the last getmany
    commits,        \* history: consumer.commit calls since the last getmany
    records,        \* producer: the flattened articles of this produce_batch call
    idx,            \* producer: index of the record the loop is at
    produced,       \* producer: produce_batch local
    ppc,            \* producer: position of produce_batch
    raw,            \* raw-items topic as the producer writes it: sequence of [key, value]
    ptrace,         \* history: what produce_batch did, in order
    calls,          \* history: number of produce_batch calls started
    psnap,          \* history: counters and topic length when produce_batch was called
    mode,           \* which program this behaviour runs
    released,       \* history: the handles a finally block has released
    remaining,      \* producer poll loop: 1-second sleep increments left
    lastEnd,        \* history: how the last produce_batch call ended
    env,            \* codec: the value handed to to_json
    wire,           \* codec: the bytes handed to from_json
    decoded,        \* codec: what from_json returned or raised
    cpc,            \* codec: which call has been made
    todo,           \* fetch_multiple_feeds: the categories still to process
    seen_urls,      \* ArticleDeduplicator.seen_urls
    seen_hashes,    \* ArticleDeduplicator.seen_hashes
    all_articles,   \* fetch_multiple_feeds: the mapping built so far, in dict order
    fstats,         \* fetch_multiple_feeds: total_articles and total_duplicates
    lastDedup,      \* history: the last deduplicate_articles call, in numbers
    running,        \* event loop: the unit whose code holds the loop's thread, or 0
    rstate          \* kafka_utils.retry: its arguments, its position and what it did

storageVars == <<store, hist, lastResult, lastCall>>
brokerVars == <<log, committed, cleaned, alerts>>
consumerVars == <<pc, loop_forever, max_messages, flag, position, processed, metrics,
                  cur, enriched, failCause, snap, trace, outcome, startPos, restarts,
                  replay>>
asyncVars == <<units, sem, polled, tasks, commits>>
producerVars == <<records, idx, produced, ppc, raw, ptrace, calls, psnap>>
runVars == <<mode, released>>
pollVars == <<remaining, lastEnd>>
codecVars == <<env, wire, decoded, cpc>>
fetchVars == <<todo, seen_urls, seen_hashes, all_articles, fstats, lastDedup>>
vars == <<store, hist, lastResult, lastCall, log, committed, cleaned, alerts, pc,
          loop_forever, max_messages, flag, position, processed, metrics, cur, enriched,
          failCause,
          snap, trace, outcome, startPos, restarts, replay, units, sem, polled, tasks,
          commits, records, idx, produced, ppc, raw, ptrace, calls, psnap, mode,
          released, remaining, lastEnd, env, wire, decoded, cpc, todo, seen_urls,
          seen_hashes, all_articles, fstats, lastDedup, running, rstate>>

(***************************************************************************)
(* Messages of the raw-items topic.  A value is not valid JSON, valid JSON *)
(* that is not an object, or an object (the keys the consumer reads).      *)
(***************************************************************************)
BadJson == [kind |-> "badjson", link |-> Absent, title |-> Absent, summary |-> Absent]
NonObject == [kind |-> "nonobject", link |-> Absent, title |-> Absent, summary |-> Absent]
Object(l) == [kind |-> "object", link |-> l, title |-> "T", summary |-> "s"]
Msgs == {BadJson, NonObject} \cup {Object(l) : l \in Links \cup {Absent}}

\* kafka_utils.from_json followed by payload.get: json.loads raises on invalid
\* JSON, and .get raises on a value that is not a dict
\* faulty variant: only invalid JSON is rejected
DecodeRaisesMutJsonOnly(msg) == msg.kind = "badjson"

DecodeRaises(msg) == msg.kind # "object"

\* lines 79-86: the article handed to enrich_single
BaseArticle(payload) ==
    [title |-> GetOr(payload, "title", ""),
     link |-> Get(payload, "link"),
     publish_date |-> "",
     source |-> "Unknown",
     category |-> "uncategorized",
     content |-> GetOr(payload, "summary", "")]

\* scraper.fetch_full_articles line 168: art.get("link", "").strip() on None raises
ScrapeRaises(article) == article.link = None

\* scraper.fetch_full_articles lines 170-176: no url or no title is skipped
ScrapeSkips(article) == ~Truthy(article.link) \/ ~Truthy(article.title)

\* lines 91-99: the dict handed to storage.save_article
SaveArg(article, content) ==
    [title |-> article.title, link |-> article.link,
     publish_date |-> article.publish_date, source |-> article.source,
     category |-> article.category, content |-> article.content,
     full_content |-> content, full_content_status |-> Absent]

\* lines 102-112: the record produced to the cleaned topic, keyed by the link
\* faulty variant: the summary is sent as full_content
EnrichedRecordMutSummary(payload, content) ==
    [key |-> (IF Truthy(Get(payload, "link")) THEN payload.link ELSE None),
     value |-> [payload |-> payload, full_content |-> payload.summary]]

EnrichedRecord(payload, content) ==
    [key |-> (IF Truthy(Get(payload, "link")) THEN payload.link ELSE None),
     value |-> [payload |-> payload, full_content |-> content]]

\* lines 125-129: the alert envelope
\* faulty variant: another alert type
AlertPayloadMutType(error) == [type |-> "feed_failure", error |-> error]

AlertPayload(error) == [type |-> "enrichment_failure", error |-> error]

ZeroMetrics ==
    [messages_consumed |-> 0, processing_success |-> 0, processing_failures |-> 0,
     messages_produced |-> 0, produce_errors |-> 0]

Offsets == 1..MaxLog

\* what the history variable snap records when a message is polled
Snapshot(m, al, cl, co, st) ==
    [m |-> m, alerts |-> Len(al), cleaned |-> Len(cl), committed |-> co, rows |-> st]

\* lines 68 and 134: the one-shot exit test
LimitReached(n) == ~loop_forever /\ n >= max_messages

RECURSIVE SeqsOfLen(_, _)
SeqsOfLen(S, n) ==
    IF n = 0 THEN {<<>>}
    ELSE {Append(s, x) : s \in SeqsOfLen(S, n - 1), x \in S}

(***************************************************************************)
(* Initial state: the partition holds MaxLog messages, nothing committed,  *)
(* run_consumer has built its handles (lines 50-58).                       *)
(***************************************************************************)
\* no process_message task exists for the offset
\* (alert is history: whether the alert of a failed unit was published)
NoTask == [st |-> "idle", fc |-> None, err |-> None, alert |-> None]

\* no crash has interrupted a saved message
NoReplay == [off |-> 0, link |-> None, rows |-> {}]

InitIdle ==
    /\ store = EmptyStore
    /\ hist = <<>>
    /\ lastResult = FALSE
    /\ lastCall = [link |-> None, title |-> None]
    /\ committed = 1
    /\ cleaned = <<>>
    /\ alerts = <<>>
    /\ flag = FALSE
    /\ position = 1
    /\ processed = 0
    /\ metrics = ZeroMetrics
    /\ cur = 0
    /\ enriched = None
    /\ failCause = None
    /\ snap = Snapshot(ZeroMetrics, <<>>, <<>>, 1, EmptyStore)
    /\ trace = <<>>
    /\ outcome = [o \in Offsets |-> "none"]
    /\ startPos = 1
    /\ restarts = 0
    /\ replay = NoReplay
    /\ units = [o \in Offsets |-> NoTask]
    /\ sem = CONCURRENCY
    /\ polled = {}
    /\ tasks = {}
    /\ commits = 0
    /\ records = <<>>
    /\ idx = 1
    /\ produced = 0
    /\ ppc = "idle"
    /\ raw = <<>>
    /\ ptrace = <<>>
    /\ calls = 0
    /\ psnap = [m |-> ZeroMetrics, raw |-> 0]
    /\ released = {}
    /\ remaining = 0
    /\ lastEnd = "none"
    /\ env = None
    /\ wire = <<>>
    /\ decoded = None
    /\ cpc = "idle"
    /\ todo = <<>>
    /\ seen_urls = {}
    /\ seen_hashes = {}
    /\ all_articles = <<>>
    /\ fstats = [total_articles |-> 0, total_duplicates |-> 0]
    /\ lastDedup = [input |-> 0, unique |-> 0, duplicates |-> 0]
    /\ running = 0
    /\ rstate = [rpc |-> "idle", attempts |-> 0, attempt |-> 0, base_sleep |-> 0,
                 events |-> <<>>, result |-> [kind |-> "none", of |-> 0, what |-> None]]

Init ==
    /\ InitIdle
    /\ mode = "sync"
    /\ log \in SeqsOfLen(Msgs, MaxLog)
    /\ pc = "loop"
    /\ \/ loop_forever = TRUE /\ max_messages = 0
       \/ loop_forever = FALSE /\ max_messages \in 0..MaxLog


(***************************************************************************)
(* run_consumer, lines 61-145.                                             *)
(***************************************************************************)
\* faulty variant: the counter is written from the value read when the batch
\* was polled
BumpMutStale(m, k) == [m EXCEPT ![k] = snap.m[k] + 1]

Bump(m, k) == [m EXCEPT ![k] = @ + 1]

\* where the loop goes after a message was handled: line 134, then line 61
AfterMessage(n) == IF LimitReached(n) THEN "finally" ELSE "loop"

\* lines 62-75: poll returns the next message of the partition
PollMessage ==
    /\ pc = "loop" /\ ~flag
    /\ position <= Len(log)
    /\ cur' = position
    /\ position' = position + 1
    /\ snap' = Snapshot(metrics, alerts, cleaned, committed, store)
    /\ metrics' = Bump(metrics, "messages_consumed")
    /\ trace' = <<>>
    /\ enriched' = None
    /\ failCause' = None
    /\ pc' = "decode"
    /\ UNCHANGED <<storageVars, brokerVars, loop_forever, max_messages, flag,
                   processed, outcome, startPos, restarts,
                   replay, asyncVars, producerVars, runVars, pollVars, codecVars, fetchVars, running, rstate>>

\* lines 62-70: poll times out
PollNone ==
    /\ pc = "loop" /\ ~flag
    /\ pc' = IF LimitReached(processed) THEN "finally" ELSE "loop"
    /\ UNCHANGED <<storageVars, brokerVars, loop_forever, max_messages, flag, position,
                   processed, metrics, cur, enriched, failCause, snap, trace, outcome,
                   startPos, restarts,
                   replay, asyncVars, producerVars, runVars, pollVars, codecVars, fetchVars, running, rstate>>

\* lines 62, 71: poll returns an error event
\* faulty variant: the error event is counted as a consumed message
PollErrorMutCounted ==
    /\ pc = "loop" /\ ~flag
    /\ pc' = "error_event"
    /\ metrics' = Bump(metrics, "messages_consumed")
    /\ UNCHANGED <<storageVars, brokerVars, loop_forever, max_messages, flag, position,
                   processed, cur, enriched, failCause, snap, trace, outcome,
                   startPos, restarts,
                   replay, asyncVars, producerVars, runVars, pollVars, codecVars, fetchVars, running, rstate>>

PollError ==
    /\ pc = "loop" /\ ~flag
    /\ pc' = "error_event"
    /\ UNCHANGED <<storageVars, brokerVars, loop_forever, max_messages, flag, position,
                   processed, metrics, cur, enriched, failCause, snap, trace, outcome,
                   startPos, restarts,
                   replay, asyncVars, producerVars, runVars, pollVars, codecVars, fetchVars, running, rstate>>

\* lines 72-73: the error event is logged and the loop continues with its
\* test (the limit test of line 134 is skipped)
SkipError ==
    /\ pc = "error_event"
    /\ pc' = "loop"
    /\ UNCHANGED <<storageVars, brokerVars, loop_forever, max_messages, flag, position,
                   processed, metrics, cur, enriched, failCause, snap, trace, outcome,
                   startPos, restarts,
                   replay, asyncVars, producerVars, runVars, pollVars, codecVars, fetchVars, running, rstate>>

\* lines 77-78: from_json and payload.get("link")
Decode ==
    /\ pc = "decode"
    /\ IF DecodeRaises(log[cur])
       THEN /\ pc' = "except"
            /\ failCause' = "decode error"
            /\ trace' = Append(trace, "decode_err")
       ELSE /\ pc' = "enrich"
            /\ failCause' = failCause
            /\ trace' = Append(trace, "decoded")
    /\ UNCHANGED <<storageVars, brokerVars, loop_forever, max_messages, flag, position,
                   processed, metrics, cur, enriched, snap, outcome, startPos, restarts,
                   replay, asyncVars, producerVars, runVars, pollVars, codecVars, fetchVars, running, rstate>>

\* lines 79-88 with enrich_single (lines 36-46): the scrape of this one article
Enrich ==
    /\ pc = "enrich"
    /\ LET article == BaseArticle(log[cur])
       IN  \/ /\ ScrapeRaises(article)
              /\ pc' = "except"
              /\ failCause' = "AttributeError"
              /\ trace' = Append(trace, "scrape_raise")
              /\ enriched' = None
           \/ /\ ~ScrapeRaises(article)
              /\ pc' = "except"
              /\ failCause' = "Full content fetch failed"
              /\ trace' = Append(trace, "scrape_none")
              /\ enriched' = None
           \/ /\ ~ScrapeRaises(article) /\ ~ScrapeSkips(article)
              /\ \E c \in Contents : enriched' = c
              /\ pc' = "save"
              /\ failCause' = failCause
              /\ trace' = Append(trace, "scraped")
    /\ UNCHANGED <<storageVars, brokerVars, loop_forever, max_messages, flag, position,
                   processed, metrics, cur, snap, outcome, startPos, restarts,
                   replay, asyncVars, producerVars, runVars, pollVars, codecVars, fetchVars, running, rstate>>

\* lines 91-99: storage.save_article, whose return value is not read
\* faulty variant: the commit is issued before the publish is attempted
SaveMutCommitFirst ==
    /\ pc = "save"
    /\ \E dbRaises \in BOOLEAN :
          LET arg == SaveArg(BaseArticle(log[cur]), enriched)
          IN  /\ store' = SaveArticleStore(store, arg, dbRaises)
              /\ trace' = Append(trace, IF Applied(arg, dbRaises) THEN "save_ok"
                                                                  ELSE "save_err")
    /\ pc' = "commit"
    /\ UNCHANGED <<hist, lastResult, lastCall, brokerVars, loop_forever, max_messages, flag,
                   position, processed, metrics, cur, enriched, failCause, snap, outcome,
                   startPos, restarts,
                   replay, asyncVars, producerVars, runVars, pollVars, codecVars, fetchVars, running, rstate>>

Save ==
    /\ pc = "save"
    /\ \E dbRaises \in BOOLEAN :
          LET arg == SaveArg(BaseArticle(log[cur]), enriched)
          IN  /\ store' = SaveArticleStore(store, arg, dbRaises)
              /\ trace' = Append(trace, IF Applied(arg, dbRaises) THEN "save_ok"
                                                                  ELSE "save_err")
    /\ pc' = "publish"
    /\ UNCHANGED <<hist, lastResult, lastCall, brokerVars, loop_forever, max_messages, flag,
                   position, processed, metrics, cur, enriched, failCause, snap, outcome,
                   startPos, restarts,
                   replay, asyncVars, producerVars, runVars, pollVars, codecVars, fetchVars, running, rstate>>

\* lines 102-116: produce to the cleaned topic; an error is counted and logged
\* faulty variant: a produce error routes the message to the except branch
PublishMutFatal ==
    /\ pc = "publish"
    /\ \/ /\ cleaned' = Append(cleaned, EnrichedRecord(log[cur], enriched))
          /\ metrics' = Bump(metrics, "messages_produced")
          /\ trace' = Append(trace, "pub_ok")
          /\ pc' = "commit"
          /\ failCause' = failCause
       \/ /\ cleaned' = cleaned
          /\ metrics' = Bump(metrics, "produce_errors")
          /\ trace' = Append(trace, "pub_err")
          /\ pc' = "except"
          /\ failCause' = "produce error"
    /\ UNCHANGED <<storageVars, log, committed, alerts, loop_forever, max_messages, flag,
                   position, processed, cur, enriched, snap, outcome, startPos, restarts,
                   replay, asyncVars, producerVars, runVars, pollVars, codecVars, fetchVars, running, rstate>>

Publish ==
    /\ pc = "publish"
    /\ \/ /\ cleaned' = Append(cleaned, EnrichedRecord(log[cur], enriched))
          /\ metrics' = Bump(metrics, "messages_produced")
          /\ trace' = Append(trace, "pub_ok")
       \/ /\ cleaned' = cleaned
          /\ metrics' = Bump(metrics, "produce_errors")
          /\ trace' = Append(trace, "pub_err")
    /\ pc' = "commit"
    /\ UNCHANGED <<storageVars, log, committed, alerts, loop_forever, max_messages, flag,
                   position, processed, cur, enriched, failCause, snap, outcome,
                   startPos, restarts,
                   replay, asyncVars, producerVars, runVars, pollVars, codecVars, fetchVars, running, rstate>>

\* consumer.commit(asynchronous=False) without message or offsets commits the
\* consumer's current position of the partition
CommitOffset == position

\* lines 118-120 and 134: synchronous commit, then the success counters
\* faulty variant: processing_success is counted before the commit is tried
CommitMutCountFirst ==
    /\ pc = "commit"
    /\ metrics' = Bump(metrics, "processing_success")
    /\ \/ /\ committed' = CommitOffset
          /\ processed' = processed + 1
          /\ trace' = Append(trace, "commit_ok")
          /\ outcome' = [outcome EXCEPT ![cur] = "SUCCESS"]
          /\ pc' = AfterMessage(processed + 1)
          /\ failCause' = failCause
       \/ /\ pc' = "except"
          /\ failCause' = "commit error"
          /\ trace' = Append(trace, "commit_err")
          /\ UNCHANGED <<committed, processed, outcome>>
    /\ UNCHANGED <<storageVars, log, cleaned, alerts, loop_forever, max_messages, flag,
                   position, cur, enriched, snap, startPos, restarts,
                   replay, asyncVars, producerVars, runVars, pollVars, codecVars, fetchVars, running, rstate>>

Commit ==
    /\ pc = "commit"
    /\ \/ /\ committed' = CommitOffset
          /\ metrics' = Bump(metrics, "processing_success")
          /\ processed' = processed + 1
          /\ trace' = Append(trace, "commit_ok")
          /\ outcome' = [outcome EXCEPT ![cur] = "SUCCESS"]
          /\ pc' = AfterMessage(processed + 1)
          /\ failCause' = failCause
       \/ /\ pc' = "except"
          /\ failCause' = "commit error"
          /\ trace' = Append(trace, "commit_err")
          /\ UNCHANGED <<committed, metrics, processed, outcome>>
    /\ UNCHANGED <<storageVars, log, cleaned, alerts, loop_forever, max_messages, flag,
                   position, cur, enriched, snap, startPos, restarts,
                   replay, asyncVars, producerVars, runVars, pollVars, codecVars, fetchVars, running, rstate>>

\* lines 121-135: the except branch: count, log, best-effort alert, no commit
\* faulty variant: an exception of the alert publish leaves the loop
ExceptMutAlertFatal ==
    /\ pc = "except"
    /\ metrics' = Bump(metrics, "processing_failures")
    /\ \/ /\ alerts' = Append(alerts, AlertPayload(failCause))
          /\ trace' = Append(trace, "alert_ok")
       \/ /\ alerts' = alerts
          /\ trace' = Append(trace, "alert_err")
    /\ outcome' = [outcome EXCEPT ![cur] = "FAILURE"]
    /\ pc' = IF Len(alerts') = Len(alerts) THEN "finally" ELSE AfterMessage(processed)
    /\ UNCHANGED <<storageVars, log, committed, cleaned, loop_forever, max_messages, flag,
                   position, processed, cur, enriched, failCause, snap, startPos,
                   restarts, replay, asyncVars,
                   producerVars, runVars, pollVars, codecVars, fetchVars, running, rstate>>

Except ==
    /\ pc = "except"
    /\ metrics' = Bump(metrics, "processing_failures")
    /\ \/ /\ alerts' = Append(alerts, AlertPayload(failCause))
          /\ trace' = Append(trace, "alert_ok")
       \/ /\ alerts' = alerts
          /\ trace' = Append(trace, "alert_err")
    /\ outcome' = [outcome EXCEPT ![cur] = "FAILURE"]
    /\ pc' = AfterMessage(processed)
    /\ UNCHANGED <<storageVars, log, committed, cleaned, loop_forever, max_messages, flag,
                   position, processed, cur, enriched, failCause, snap, startPos,
                   restarts, replay, asyncVars,
                   producerVars, runVars, pollVars, codecVars, fetchVars, running, rstate>>

\* line 61: the loop sees the shutdown flag
ExitOnFlag ==
    /\ pc = "loop" /\ flag
    /\ pc' = "finally"
    /\ UNCHANGED <<storageVars, brokerVars, loop_forever, max_messages, flag, position,
                   processed, metrics, cur, enriched, failCause, snap, trace, outcome,
                   startPos, restarts,
                   replay, asyncVars, producerVars, runVars, pollVars, codecVars, fetchVars, running, rstate>>

Handles == {"producer", "consumer", "storage"}

\* lines 136-145: producer.flush(10) inside try/except, then consumer.close()
\* and storage.close() unguarded; run_consumer ends by returning or, when
\* consumer.close() raises, by propagating that exception from line 142
Finally ==
    /\ pc = "finally"
    /\ pc' = "returned"
    /\ \/ released' = Handles
       \/ released' = {"producer"}
    /\ UNCHANGED <<storageVars, brokerVars, loop_forever, max_messages, flag, position,
                   processed, metrics, cur, enriched, failCause, snap, trace, outcome,
                   startPos, restarts,
                   replay, asyncVars, producerVars, mode, pollVars, codecVars, fetchVars, running, rstate>>

\* kafka_utils.ShutdownFlag.set, installed for SIGINT and SIGTERM
\* faulty variant: a signal flips the flag, so a second signal clears it
SetFlagMutToggle ==
    /\ pc \notin {"returned", "down"}
    /\ flag' = ~flag
    /\ UNCHANGED <<storageVars, brokerVars, pc, loop_forever, max_messages, position,
                   processed, metrics, cur, enriched, failCause, snap, trace, outcome,
                   startPos, restarts,
                   replay, asyncVars, producerVars, runVars, pollVars, codecVars, fetchVars, running, rstate>>

SetFlag ==
    /\ pc \notin {"returned", "down"}
    /\ ~flag
    /\ flag' = TRUE
    /\ UNCHANGED <<storageVars, brokerVars, pc, loop_forever, max_messages, position,
                   processed, metrics, cur, enriched, failCause, snap, trace, outcome,
                   startPos, restarts,
                   replay, asyncVars, producerVars, runVars, pollVars, codecVars, fetchVars, running, rstate>>

\* the process is killed while it handles a message; replay remembers the
\* message when its row was already saved and its offset not yet committed
Crash ==
    /\ pc \in {"decode", "enrich", "save", "publish", "commit", "except"}
    /\ restarts < MaxRestarts
    /\ pc' = "down"
    /\ replay' = IF \E i \in 1..Len(trace) : trace[i] = "save_ok"
                 THEN [off |-> cur, link |-> log[cur].link,
                       rows |-> Matching(store, log[cur].link)]
                 ELSE NoReplay
    /\ UNCHANGED <<storageVars, brokerVars, loop_forever, max_messages, flag, position,
                   processed, metrics, cur, enriched, failCause, snap, trace, outcome,
                   startPos, restarts, asyncVars, producerVars,
                   runVars, pollVars, codecVars, fetchVars, running, rstate>>

\* run_consumer is started again (lines 50-58): a new process, whose consumer
\* resumes at the committed offset of the group
Restart ==
    /\ pc \in {"returned", "down"}
    /\ restarts < MaxRestarts
    /\ restarts' = restarts + 1
    /\ pc' = "loop"
    /\ released' = {}
    /\ flag' = FALSE
    /\ position' = committed
    /\ startPos' = committed
    /\ processed' = 0
    /\ metrics' = ZeroMetrics
    /\ snap' = Snapshot(ZeroMetrics, alerts, cleaned, committed, store)
    /\ cur' = 0
    /\ enriched' = None
    /\ failCause' = None
    /\ trace' = <<>>
    /\ replay' = IF pc = "down" THEN replay ELSE NoReplay
    /\ UNCHANGED <<storageVars, brokerVars, loop_forever, max_messages, outcome,
                   asyncVars, producerVars, mode, pollVars, codecVars, fetchVars, running, rstate>>

Next ==
    \/ PollMessage
    \/ PollNone
    \/ PollError
    \/ SkipError
    \/ Decode
    \/ Enrich
    \/ Save
    \/ Publish
    \/ Commit
    \/ Except
    \/ ExitOnFlag
    \/ Finally
    \/ SetFlag

Spec == Init /\ [][Next]_vars

\* the consumer with process crashes and restarts
NextRestart ==
    \/ Next
    \/ Crash
    \/ Restart

SpecRestart == Init /\ [][NextRestart]_vars


\* the consumer in its endless mode (loop_forever, no signal), killed and
\* started again
InitReplay ==
    /\ InitIdle
    /\ mode = "sync"
    /\ log \in SeqsOfLen(Msgs, ReplayLen)
    /\ pc = "loop"
    /\ loop_forever = TRUE
    /\ max_messages = 0

NextReplay ==
    \/ PollMessage
    \/ Decode
    \/ Enrich
    \/ Save
    \/ Publish
    \/ Commit
    \/ Except
    \/ Crash
    \/ Restart

SpecReplay == InitReplay /\ [][NextReplay]_vars

(***************************************************************************)
(* The async consumer (newsbot/kafka_scraper_async_consumer.py).  One      *)
(* event loop runs run_async_consumer and the process_message tasks; a     *)
(* step is the code a coroutine runs between two awaits.  The partition    *)
(* is the one of the synchronous consumer.                                 *)
(***************************************************************************)
Min(a, b) == IF a <= b THEN a ELSE b

\* line 61: entering "async with semaphore" takes one permit
\* faulty variant: the body runs without taking a permit
SemAcquireMutNone(s) == s

SemAcquire(s) == s - 1

\* leaving "async with semaphore" gives the permit back
SemRelease(s) == s + 1

Terminal == {"SUCCESS", "FAILURE"}

\* line 136: asyncio.gather returns when every task of the batch has finished
\* faulty variant: the wait ends when the first task has finished
GatherDoneMutFirst == \E o \in tasks : units[o].st \in Terminal

GatherDone == \A o \in tasks : units[o].st \in Terminal

\* lines 128 and 133: the dispatch loop stops at the max_messages limit
\* (None and 0 are both no limit)
\* faulty variant: the limit is tested only after the batch, every polled
\* message is dispatched
DispatchCountMutWholeBatch(k, n) == k

DispatchCount(k, n) == IF max_messages > 0 THEN Min(k, max_messages - n) ELSE k

\* line 143: the one-shot exit test after a batch
AfterBatch(n) == IF max_messages > 0 /\ n >= max_messages THEN "finally" ELSE "loop"

\* line 138: consumer.commit() without offsets commits the consumed position
\* of every assigned partition
\* faulty variant: the commit stops before the first failed unit of the batch
AsyncCommitOffsetMutUpToFailure ==
    LET failed == {o \in tasks : units[o].st = "FAILURE"}
    IN  IF failed = {} THEN position
        ELSE CHOOSE o \in failed : \A q \in failed : o <= q

AsyncCommitOffset == position

InitAsync ==
    /\ InitIdle
    /\ mode = "async"
    /\ log \in SeqsOfLen(Msgs, MaxLog)
    /\ pc = "loop"
    /\ loop_forever = TRUE
    /\ max_messages \in 0..MaxLog

\* lines 124-135: getmany returns at most max_records = CONCURRENCY messages
\* (none on a timeout), the consumed position moves past them, and a task is
\* created for each until the limit is reached
GetMany ==
    /\ pc = "loop" /\ ~flag
    /\ \E k \in 0..Min(CONCURRENCY, Len(log) + 1 - position) :
          LET d == DispatchCount(k, processed)
              dispatched == position..(position + d - 1)
          IN  /\ polled' = position..(position + k - 1)
              /\ tasks' = dispatched
              /\ position' = position + k
              /\ processed' = processed + d
              /\ units' = [o \in Offsets |->
                              IF o \in dispatched
                              THEN [st |-> "waiting", fc |-> None, err |-> None, alert |-> None]
                              ELSE units[o]]
              /\ pc' = IF d > 0 THEN "gather" ELSE AfterBatch(processed + d)
    /\ commits' = 0
    /\ snap' = Snapshot(metrics, alerts, cleaned, committed, store)
    /\ UNCHANGED <<storageVars, brokerVars, loop_forever, max_messages, flag, metrics, cur,
                   enriched, failCause, trace, outcome, startPos, restarts, replay, sem,
                   producerVars, runVars, pollVars, codecVars, fetchVars, running, rstate>>

\* line 124: getmany raises; the exception leaves the loop through finally
GetManyError ==
    /\ pc = "loop" /\ ~flag
    /\ pc' = "finally"
    /\ UNCHANGED <<storageVars, brokerVars, loop_forever, max_messages, flag, position,
                   processed, metrics, cur, enriched, failCause, snap, trace, outcome,
                   startPos, restarts, replay, asyncVars, producerVars,
                   runVars, pollVars, codecVars, fetchVars, running, rstate>>

\* lines 61-74: the task takes a permit, counts the message, decodes it and
\* hands the article to _enrich_one, where it awaits the scrape
UnitStart(o) ==
    /\ units[o].st = "waiting"
    /\ sem > 0
    /\ sem' = SemAcquire(sem)
    /\ \/ /\ DecodeRaises(log[o])
          /\ metrics' = Bump(Bump(metrics, "messages_consumed"), "processing_failures")
          /\ units' = [units EXCEPT ![o] = [st |-> "alerting", fc |-> None,
                                            err |-> "decode error", alert |-> None]]
       \/ /\ ~DecodeRaises(log[o])
          /\ metrics' = Bump(metrics, "messages_consumed")
          /\ units' = [units EXCEPT ![o].st = "enriching"]
    /\ UNCHANGED <<storageVars, brokerVars, pc, loop_forever, max_messages, flag, position,
                   processed, cur, enriched, failCause, snap, trace, outcome, startPos,
                   restarts, replay, polled, tasks, commits, producerVars,
                   runVars, pollVars, codecVars, fetchVars, running, rstate>>

\* lines 39-57 and 74-90: the scrape (run in the executor) ends; without a
\* result the task goes to its except branch, with one it upserts the article
\* and awaits the publish of the enriched record
UnitEnriched(o) ==
    /\ units[o].st = "enriching"
    /\ LET article == BaseArticle(log[o])
       IN  \/ /\ ScrapeRaises(article)
              /\ metrics' = Bump(metrics, "processing_failures")
              /\ units' = [units EXCEPT ![o] = [st |-> "alerting", fc |-> None,
                                                err |-> "AttributeError", alert |-> None]]
              /\ store' = store
           \/ /\ ~ScrapeRaises(article)
              /\ metrics' = Bump(metrics, "processing_failures")
              /\ units' = [units EXCEPT ![o] = [st |-> "alerting", fc |-> None,
                                                err |-> "Full content fetch failed",
                                                alert |-> None]]
              /\ store' = store
           \/ /\ ~ScrapeRaises(article) /\ ~ScrapeSkips(article)
              /\ \E c \in Contents, dbRaises \in BOOLEAN :
                    /\ store' = SaveArticleStore(store, SaveArg(article, c), dbRaises)
                    /\ units' = [units EXCEPT ![o] = [st |-> "publishing", fc |-> c,
                                                      err |-> None, alert |-> None]]
              /\ metrics' = metrics
    /\ UNCHANGED <<hist, lastResult, lastCall, brokerVars, pc, loop_forever, max_messages,
                   flag, position, processed, cur, enriched, failCause, snap, trace,
                   outcome, startPos, restarts, replay, sem, polled, tasks, commits,
                   producerVars, runVars, pollVars, codecVars, fetchVars, running, rstate>>

\* lines 89-95: send_and_wait to the cleaned topic ends; an error is counted
\* and logged, the unit is a success either way and gives its permit back
UnitPublished(o) ==
    /\ units[o].st = "publishing"
    /\ \/ /\ cleaned' = Append(cleaned, EnrichedRecord(log[o], units[o].fc))
          /\ metrics' = Bump(Bump(metrics, "messages_produced"), "processing_success")
       \/ /\ cleaned' = cleaned
          /\ metrics' = Bump(Bump(metrics, "produce_errors"), "processing_success")
    /\ units' = [units EXCEPT ![o].st = "SUCCESS"]
    /\ outcome' = [outcome EXCEPT ![o] = "SUCCESS"]
    /\ sem' = SemRelease(sem)
    /\ UNCHANGED <<storageVars, log, committed, alerts, pc, loop_forever, max_messages, flag,
                   position, processed, cur, enriched, failCause, snap, trace, startPos,
                   restarts, replay, polled, tasks, commits, producerVars,
                   runVars, pollVars, codecVars, fetchVars, running, rstate>>

\* lines 99-103: send_and_wait of the alert ends; an error is swallowed; the
\* unit gives its permit back
\* faulty variant: the failure of one unit cancels the tasks of the batch that
\* have not finished
UnitAlertedMutCancel(o) ==
    /\ units[o].st = "alerting"
    /\ \/ alerts' = Append(alerts, AlertPayload(units[o].err))
       \/ alerts' = alerts
    /\ units' = [q \in Offsets |->
                    IF q \in tasks /\ units[q].st \notin Terminal
                    THEN [units[q] EXCEPT !.st = "FAILURE"]
                    ELSE units[q]]
    /\ outcome' = [q \in Offsets |->
                      IF q \in tasks /\ units[q].st \notin Terminal THEN "FAILURE"
                      ELSE outcome[q]]
    /\ sem' = CONCURRENCY
    /\ UNCHANGED <<storageVars, log, committed, cleaned, pc, loop_forever, max_messages,
                   flag, position, processed, metrics, cur, enriched, failCause, snap,
                   trace, startPos, restarts, replay, polled, tasks, commits, producerVars,
                   runVars, pollVars, codecVars, fetchVars, running, rstate>>

UnitAlerted(o) ==
    /\ units[o].st = "alerting"
    /\ \/ /\ alerts' = Append(alerts, AlertPayload(units[o].err))
          /\ units' = [units EXCEPT ![o].st = "FAILURE", ![o].alert = "sent"]
       \/ /\ alerts' = alerts
          /\ units' = [units EXCEPT ![o].st = "FAILURE", ![o].alert = "lost"]
    /\ outcome' = [outcome EXCEPT ![o] = "FAILURE"]
    /\ sem' = SemRelease(sem)
    /\ UNCHANGED <<storageVars, log, committed, cleaned, pc, loop_forever, max_messages,
                   flag, position, processed, metrics, cur, enriched, failCause, snap,
                   trace, startPos, restarts, replay, polled, tasks, commits, producerVars,
                   runVars, pollVars, codecVars, fetchVars, running, rstate>>

\* lines 136-144: gather has returned, consumer.commit() is awaited once;
\* when it raises the exception leaves the loop through finally
\* faulty variant: a set flag ends the wait at once, the unfinished units are
\* left behind and the batch is not committed
BatchCommitMutAbandon ==
    /\ pc = "gather"
    /\ IF flag
       THEN /\ pc' = "finally"
            /\ UNCHANGED <<commits, committed>>
       ELSE /\ GatherDone
            /\ commits' = commits + 1
            /\ \/ /\ committed' = AsyncCommitOffset
                  /\ pc' = AfterBatch(processed)
               \/ /\ committed' = committed
                  /\ pc' = "finally"
    /\ UNCHANGED <<storageVars, log, cleaned, alerts, loop_forever, max_messages, flag,
                   position, processed, metrics, cur, enriched, failCause, snap, trace,
                   outcome, startPos, restarts, replay, units, sem, polled, tasks,
                   producerVars, runVars, pollVars, codecVars, fetchVars, running, rstate>>

BatchCommit ==
    /\ pc = "gather"
    /\ GatherDone
    /\ commits' = commits + 1
    /\ \/ /\ committed' = AsyncCommitOffset
          /\ pc' = AfterBatch(processed)
       \/ /\ committed' = committed
          /\ pc' = "finally"
    /\ UNCHANGED <<storageVars, log, cleaned, alerts, loop_forever, max_messages, flag,
                   position, processed, metrics, cur, enriched, failCause, snap, trace,
                   outcome, startPos, restarts, replay, units, sem, polled, tasks,
                   producerVars, runVars, pollVars, codecVars, fetchVars, running, rstate>>

\* lines 145-157: producer.stop() and consumer.stop() each inside try/except,
\* then storage.close(); run_async_consumer ends
AsyncFinally ==
    /\ pc = "finally"
    /\ pc' = "returned"
    /\ released' = Handles
    /\ UNCHANGED <<storageVars, brokerVars, loop_forever, max_messages, flag, position,
                   processed, metrics, cur, enriched, failCause, snap, trace, outcome,
                   startPos, restarts,
                   replay, asyncVars, producerVars, mode, pollVars, codecVars, fetchVars, running, rstate>>

\* ExitOnFlag is the loop test of line 123, SetFlag the installed signal
\* handler
NextAsync ==
    \/ GetMany
    \/ GetManyError
    \/ \E o \in Offsets : UnitStart(o)
    \/ \E o \in Offsets : UnitEnriched(o)
    \/ \E o \in Offsets : UnitPublished(o)
    \/ \E o \in Offsets : UnitAlerted(o)
    \/ BatchCommit
    \/ ExitOnFlag
    \/ AsyncFinally
    \/ SetFlag

SpecAsync == InitAsync /\ [][NextAsync]_vars

\* the event loop runs every task that can run, the awaited collaborators
\* (executor scrape, send_and_wait, commit) return or raise in the end, and
\* the coroutine of run_async_consumer goes on after gather
\* the runs of the async consumer over logs of one malformed and one
\* well-formed kind of message
InitAsyncFair == InitAsync /\ log \in SeqsOfLen({BadJson, Object("L1")}, MaxLog)

SpecAsyncFair ==
    /\ InitAsyncFair /\ [][NextAsync]_vars
    /\ WF_vars(\E o \in Offsets : UnitStart(o))
    /\ WF_vars(\E o \in Offsets : UnitEnriched(o))
    /\ WF_vars(\E o \in Offsets : UnitPublished(o))
    /\ WF_vars(\E o \in Offsets : UnitAlerted(o))
    /\ WF_vars(BatchCommit)
    /\ WF_vars(mode = "async" /\ ExitOnFlag)
    /\ WF_vars(AsyncFinally)

(***************************************************************************)
(* The RSS producer (kafka/kafka_producer.py): produce_batch.               *)
(***************************************************************************)
\* the articles fetch_multiple_feeds returns, flattened (lines 37-42, 59-60)
FetchedArticles == [link : Links, title : {"T"}, content : {"s"}]

RECURSIVE SeqsUpTo(_, _)
SeqsUpTo(S, n) == IF n = 0 THEN {<<>>} ELSE SeqsUpTo(S, n - 1) \cup SeqsOfLen(S, n)

\* lines 45-55: the envelope of one article (the keys the consumers read)
BuildMessage(article) ==
    [kind |-> "object",
     link |-> GetOr(article, "link", ""),
     title |-> GetOr(article, "title", ""),
     summary |-> GetOr(article, "content", "")]

\* lines 66-71 and 77-80: the message handed to producer.produce
\* faulty variant: the message is keyed by the title
RawRecordMutTitleKey(article) ==
    [key |-> BuildMessage(article).title, value |-> BuildMessage(article)]

RawRecord(article) == [key |-> BuildMessage(article).link, value |-> BuildMessage(article)]

\* line 62: the loop goes to the next record, or leaves after the last one
AfterRecord(i) == IF i + 1 > Len(records) THEN "flush" ELSE "produce"

InitProducer ==
    /\ InitIdle
    /\ mode = "once"
    /\ log = <<>>
    /\ pc = "idle"
    /\ loop_forever = TRUE
    /\ max_messages = 0

\* lines 58-61: produce_batch is called and fetches the articles; when the
\* fetch raises, produce_batch raises
CallProduceBatch(n) ==
    /\ calls < MaxBatches
    /\ calls' = calls + 1
    /\ psnap' = [m |-> metrics, raw |-> Len(raw)]
    /\ idx' = 1
    /\ produced' = 0
    /\ ptrace' = <<>>
    /\ \/ \E flat \in SeqsUpTo(FetchedArticles, n) :
             /\ records' = flat
             /\ ppc' = IF flat = <<>> THEN "flush" ELSE "produce"
             /\ lastEnd' = lastEnd
       \/ /\ records' = <<>>
          /\ ppc' = "raised"
          /\ lastEnd' = "raised"
    /\ UNCHANGED <<storageVars, brokerVars, consumerVars, asyncVars, raw, runVars,
                   remaining, codecVars, fetchVars, running, rstate>>

\* produce_batch called directly (main with --once, line 118, or a test)
FetchBatch ==
    /\ ppc \in {"idle", "returned", "raised"}
    /\ CallProduceBatch(MaxRecords)

\* lines 62-86: producer.produce for the record: accepted, or BufferError
\* (the handler flushes before it retries), or any other exception
\* faulty variant: an exception other than BufferError ends the loop
ProduceMutAbort ==
    /\ ppc = "produce"
    /\ \/ /\ raw' = Append(raw, RawRecord(records[idx]))
          /\ produced' = produced + 1
          /\ metrics' = Bump(metrics, "messages_produced")
          /\ ptrace' = Append(ptrace, "accepted")
          /\ idx' = idx + 1
          /\ ppc' = AfterRecord(idx)
       \/ /\ ptrace' = ptrace \o <<"buffer", "flush">>
          /\ ppc' = "retry"
          /\ UNCHANGED <<raw, produced, metrics, idx>>
       \/ /\ metrics' = Bump(metrics, "produce_errors")
          /\ ptrace' = Append(ptrace, "error")
          /\ idx' = idx + 1
          /\ ppc' = "flush"
          /\ UNCHANGED <<raw, produced>>
    /\ UNCHANGED <<storageVars, brokerVars, pc, loop_forever, max_messages, flag, position,
                   processed, cur, enriched, failCause, snap, trace, outcome, startPos,
                   restarts, replay, asyncVars, records, calls, psnap,
                   runVars, pollVars, codecVars, fetchVars, running, rstate>>

Produce ==
    /\ ppc = "produce"
    /\ \/ /\ raw' = Append(raw, RawRecord(records[idx]))
          /\ produced' = produced + 1
          /\ metrics' = Bump(metrics, "messages_produced")
          /\ ptrace' = Append(ptrace, "accepted")
          /\ idx' = idx + 1
          /\ ppc' = AfterRecord(idx)
       \/ /\ ptrace' = ptrace \o <<"buffer", "flush">>
          /\ ppc' = "retry"
          /\ UNCHANGED <<raw, produced, metrics, idx>>
       \/ /\ metrics' = Bump(metrics, "produce_errors")
          /\ ptrace' = Append(ptrace, "error")
          /\ idx' = idx + 1
          /\ ppc' = AfterRecord(idx)
          /\ UNCHANGED <<raw, produced>>
    /\ UNCHANGED <<storageVars, brokerVars, pc, loop_forever, max_messages, flag, position,
                   processed, cur, enriched, failCause, snap, trace, outcome, startPos,
                   restarts, replay, asyncVars, records, calls, psnap,
                   runVars, pollVars, codecVars, fetchVars, running, rstate>>

\* lines 76-84: the one retry after the flush: accepted, or any exception
\* faulty variant: a failed retry is tried again
RetryMutAgain ==
    /\ ppc = "retry"
    /\ \/ /\ raw' = Append(raw, RawRecord(records[idx]))
          /\ produced' = produced + 1
          /\ metrics' = Bump(metrics, "messages_produced")
          /\ ptrace' = Append(ptrace, "retry_ok")
          /\ idx' = idx + 1
          /\ ppc' = AfterRecord(idx)
       \/ /\ metrics' = Bump(metrics, "produce_errors")
          /\ ptrace' = Append(ptrace, "retry_err")
          /\ ppc' = "retry"
          /\ UNCHANGED <<raw, produced, idx>>
    /\ UNCHANGED <<storageVars, brokerVars, pc, loop_forever, max_messages, flag, position,
                   processed, cur, enriched, failCause, snap, trace, outcome, startPos,
                   restarts, replay, asyncVars, records, calls, psnap,
                   runVars, pollVars, codecVars, fetchVars, running, rstate>>

Retry ==
    /\ ppc = "retry"
    /\ \/ /\ raw' = Append(raw, RawRecord(records[idx]))
          /\ produced' = produced + 1
          /\ metrics' = Bump(metrics, "messages_produced")
          /\ ptrace' = Append(ptrace, "retry_ok")
       \/ /\ metrics' = Bump(metrics, "produce_errors")
          /\ ptrace' = Append(ptrace, "retry_err")
          /\ UNCHANGED <<raw, produced>>
    /\ idx' = idx + 1
    /\ ppc' = AfterRecord(idx)
    /\ UNCHANGED <<storageVars, brokerVars, pc, loop_forever, max_messages, flag, position,
                   processed, cur, enriched, failCause, snap, trace, outcome, startPos,
                   restarts, replay, asyncVars, records, calls, psnap,
                   runVars, pollVars, codecVars, fetchVars, running, rstate>>

\* lines 88-90 with kafka_utils.flush_producer: the flush after the loop (an
\* error of producer.flush is logged, not raised), then return produced
\* faulty variant: nothing is flushed when no record was accepted
FinalFlushMutSkipEmpty ==
    /\ ppc = "flush"
    /\ ptrace' = IF produced = 0 THEN ptrace ELSE Append(ptrace, "final_flush")
    /\ ppc' = "returned"
    /\ lastEnd' = "returned"
    /\ UNCHANGED <<storageVars, brokerVars, consumerVars, asyncVars, records, idx, produced,
                   raw, calls, psnap, runVars, remaining, codecVars, fetchVars, running, rstate>>

FinalFlush ==
    /\ ppc = "flush"
    /\ \/ ptrace' = Append(ptrace, "final_flush")
       \/ ptrace' = Append(ptrace, "final_flush_err")
    /\ ppc' = "returned"
    /\ lastEnd' = "returned"
    /\ UNCHANGED <<storageVars, brokerVars, consumerVars, asyncVars, records, idx, produced,
                   raw, calls, psnap, runVars, remaining, codecVars, fetchVars, running, rstate>>

NextProducer ==
    \/ FetchBatch
    \/ Produce
    \/ Retry
    \/ FinalFlush

SpecProducer == InitProducer /\ [][NextProducer]_vars

(***************************************************************************)
(* The producer in polling mode: main, lines 121-147.  Testing the flag    *)
(* and starting what follows the test are one step.                        *)
(***************************************************************************)
InitPoll ==
    /\ InitIdle
    /\ mode = "poll"
    /\ log = <<>>
    /\ pc = "idle"
    /\ loop_forever = TRUE
    /\ max_messages = 0

\* lines 127-130: the loop test passes and produce_batch is called
\* faulty variant: the loop is "while True"
PollCallMutNoTest ==
    /\ ppc \in {"idle", "while"}
    /\ CallProduceBatch(MaxPollRecords)

PollCall ==
    /\ ppc \in {"idle", "while"}
    /\ ~flag
    /\ CallProduceBatch(MaxPollRecords)

\* lines 127, 147: the loop test fails, main logs and returns
PollExit ==
    /\ ppc \in {"idle", "while"}
    /\ flag
    /\ ppc' = "done"
    /\ UNCHANGED <<storageVars, brokerVars, consumerVars, asyncVars, records, idx, produced,
                   raw, ptrace, calls, psnap, runVars, pollVars, codecVars, fetchVars, running, rstate>>

\* lines 131-141: produce_batch has returned or raised (the exception is
\* logged); break on the flag, or compute the sleep: int(total_sleep)
\* increments of one second
\* faulty variant: an exception of produce_batch ends the loop
AfterProduceBatchMutFatal ==
    /\ ppc \in {"returned", "raised"}
    /\ \/ /\ flag \/ ppc = "raised"
          /\ ppc' = "done"
          /\ remaining' = remaining
       \/ /\ ~flag /\ ppc = "returned"
          /\ ppc' = "sleep"
          /\ remaining' \in 0..MaxSleep
    /\ UNCHANGED <<storageVars, brokerVars, consumerVars, asyncVars, records, idx, produced,
                   raw, ptrace, calls, psnap, runVars, lastEnd, codecVars, fetchVars, running, rstate>>

AfterProduceBatch ==
    /\ ppc \in {"returned", "raised"}
    /\ \/ /\ flag
          /\ ppc' = "done"
          /\ remaining' = remaining
       \/ /\ ~flag
          /\ ppc' = "sleep"
          /\ remaining' \in 0..MaxSleep
    /\ UNCHANGED <<storageVars, brokerVars, consumerVars, asyncVars, records, idx, produced,
                   raw, ptrace, calls, psnap, runVars, lastEnd, codecVars, fetchVars, running, rstate>>

\* lines 142-145: one turn of the sleep loop: it ends when the increments
\* are used up or the flag is set, else time.sleep(1) is entered
\* faulty variant: the sleep loop does not look at the flag
SleepCheckMutNoTest ==
    /\ ppc = "sleep"
    /\ \/ /\ remaining = 0
          /\ ppc' = "while"
          /\ remaining' = remaining
       \/ /\ remaining > 0
          /\ ppc' = "sleeping"
          /\ remaining' = remaining - 1
    /\ UNCHANGED <<storageVars, brokerVars, consumerVars, asyncVars, records, idx, produced,
                   raw, ptrace, calls, psnap, runVars, lastEnd, codecVars, fetchVars, running, rstate>>

SleepCheck ==
    /\ ppc = "sleep"
    /\ \/ /\ remaining = 0 \/ flag
          /\ ppc' = "while"
          /\ remaining' = remaining
       \/ /\ remaining > 0 /\ ~flag
          /\ ppc' = "sleeping"
          /\ remaining' = remaining - 1
    /\ UNCHANGED <<storageVars, brokerVars, consumerVars, asyncVars, records, idx, produced,
                   raw, ptrace, calls, psnap, runVars, lastEnd, codecVars, fetchVars, running, rstate>>

\* line 145: time.sleep(1) returns (a signal handler that ran meanwhile does
\* not cut it short)
SleepDone ==
    /\ ppc = "sleeping"
    /\ ppc' = "sleep"
    /\ UNCHANGED <<storageVars, brokerVars, consumerVars, asyncVars, records, idx, produced,
                   raw, ptrace, calls, psnap, runVars, pollVars, codecVars, fetchVars, running, rstate>>

NextPoll ==
    \/ PollCall
    \/ PollExit
    \/ Produce
    \/ Retry
    \/ FinalFlush
    \/ AfterProduceBatch
    \/ SleepCheck
    \/ SleepDone
    \/ SetFlag

SpecPoll == InitPoll /\ [][NextPoll]_vars

(***************************************************************************)
(* The three polling loops side by side: a run is one of run_consumer,     *)
(* run_async_consumer and the producer's main in polling mode.             *)
(***************************************************************************)
InitLoops == Init \/ InitAsync \/ InitPoll

NextLoops ==
    \/ mode = "sync" /\ Next
    \/ mode = "async" /\ NextAsync
    \/ mode = "poll" /\ NextPoll

SpecLoops == InitLoops /\ [][NextLoops]_vars

(***************************************************************************)
(* JSON (de)serialization: kafka_utils.to_json and from_json.  A text is a *)
(* sequence of Unicode code points, the wire format a sequence of bytes.   *)
(* A Python value is a record [t, v]: t is "object" (v a function from     *)
(* key texts to values), "array" (v a sequence of values), "string" (v a   *)
(* text), "number", "true", "false" or "null"; an exception is a record    *)
(* whose t is the exception class.                                         *)
(***************************************************************************)
\* longest text of the envelope field that is varied
MaxText == 2
\* longest byte string handed to from_json that to_json did not produce
MaxRaw == 3

\* the code points texts are made of: a " \ LF U+0001 e-acute, the euro sign
\* and U+1F600 (1, 2, 3 and 4 bytes of UTF-8; three kinds of JSON escape)
Chars == {97, 34, 92, 10, 1, 233, 8364, 128512}

Texts == SeqsUpTo(Chars, MaxText)

\* the keys of ArticleSummaryEnvelope, in the order build_message inserts
\* them, as code points:
\*   id            <<105, 100>>
\*   title         <<116, 105, 116, 108, 101>>
\*   link          <<108, 105, 110, 107>>
\*   publish_date  <<112, 117, 98, 108, 105, 115, 104, 95, 100, 97, 116, 101>>
\*   source        <<115, 111, 117, 114, 99, 101>>
\*   category      <<99, 97, 116, 101, 103, 111, 114, 121>>
\*   summary       <<115, 117, 109, 109, 97, 114, 121>>
\*   fetched_at    <<102, 101, 116, 99, 104, 101, 100, 95, 97, 116>>
FieldOrder ==
    << <<105, 100>>,
       <<116, 105, 116, 108, 101>>,
       <<108, 105, 110, 107>>,
       <<112, 117, 98, 108, 105, 115, 104, 95, 100, 97, 116, 101>>,
       <<115, 111, 117, 114, 99, 101>>,
       <<99, 97, 116, 101, 103, 111, 114, 121>>,
       <<115, 117, 109, 109, 97, 114, 121>>,
       <<102, 101, 116, 99, 104, 101, 100, 95, 97, 116>> >>

FieldNames == {FieldOrder[i] : i \in DOMAIN FieldOrder}

\* the envelopes: one field holds any text, the others a common short text
Envelopes ==
    {[k \in FieldNames |-> IF k = f THEN t ELSE u] :
        f \in FieldNames, t \in Texts, u \in {<<>>, <<97, 34>>}}

\* the bytes of the inputs not produced by to_json: [ ] { } " 1 - , : space
\* a and the byte 0xC3 (which begins a 2-byte UTF-8 sequence)
RawBytes == {91, 93, 123, 125, 34, 49, 45, 44, 58, 32, 97, 195}

\* null, true, false, {"a":1}, {"a":"a"}, [1,"a"], "\n" with an escape, and
\* {"a":1,"a":[]}
LongerInputs ==
    {<<110, 117, 108, 108>>, <<116, 114, 117, 101>>, <<102, 97, 108, 115, 101>>,
     <<123, 34, 97, 34, 58, 49, 125>>, <<123, 34, 97, 34, 58, 34, 97, 34, 125>>,
     <<91, 49, 44, 34, 97, 34, 93>>, <<34, 92, 110, 34>>,
     <<123, 34, 97, 34, 58, 49, 44, 34, 97, 34, 58, 91, 93, 125>>}

RawInputs == SeqsUpTo(RawBytes, MaxRaw) \cup LongerInputs

\* json.encoder: a hexadecimal digit of a \u00XX escape ('0'..'9', 'a'..'f')
Hex(d) == IF d < 10 THEN 48 + d ELSE 87 + d

\* faulty variant: no character is escaped
EscapeCharMutNone(c) == <<c>>

\* json.encoder (ESCAPE, ESCAPE_DCT) with ensure_ascii=False: the quote, the
\* backslash and the control characters are escaped, every other character
\* is written as it is
EscapeChar(c) ==
    IF c = 34 THEN <<92, 34>>
    ELSE IF c = 92 THEN <<92, 92>>
    ELSE IF c = 10 THEN <<92, 110>>
    ELSE IF c = 13 THEN <<92, 114>>
    ELSE IF c = 9 THEN <<92, 116>>
    ELSE IF c = 8 THEN <<92, 98>>
    ELSE IF c = 12 THEN <<92, 102>>
    ELSE IF c < 32 THEN <<92, 117, 48, 48, Hex(c \div 16), Hex(c % 16)>>
    ELSE <<c>>

RECURSIVE EscapeFrom(_, _)
EscapeFrom(t, i) ==
    IF i > Len(t) THEN <<>> ELSE EscapeChar(t[i]) \o EscapeFrom(t, i + 1)

\* a JSON string literal
JsonString(t) == <<34>> \o EscapeFrom(t, 1) \o <<34>>

\* json.dumps(data, separators=(",", ":")): the members in insertion order,
\* "," between members and ":" between key and value, no whitespace
RECURSIVE MembersFrom(_, _)
MembersFrom(data, i) ==
    IF i > Len(FieldOrder) THEN <<>>
    ELSE (IF i > 1 THEN <<44>> ELSE <<>>)
         \o JsonString(FieldOrder[i]) \o <<58>> \o JsonString(data[FieldOrder[i]])
         \o MembersFrom(data, i + 1)

dumps(data) == <<123>> \o MembersFrom(data, 1) \o <<125>>

\* str.encode("utf-8") of one code point
Utf8(c) ==
    IF c < 128 THEN <<c>>
    ELSE IF c < 2048 THEN <<192 + (c \div 64), 128 + (c % 64)>>
    ELSE IF c < 65536
         THEN <<224 + (c \div 4096), 128 + ((c \div 64) % 64), 128 + (c % 64)>>
    ELSE <<240 + (c \div 262144), 128 + ((c \div 4096) % 64),
           128 + ((c \div 64) % 64), 128 + (c % 64)>>

\* str.encode("utf-8") of the characters lo..hi of t (by halves)
RECURSIVE EncodeRange(_, _, _)
EncodeRange(t, lo, hi) ==
    IF lo > hi THEN <<>>
    ELSE IF lo = hi THEN Utf8(t[lo])
    ELSE LET mid == (lo + hi) \div 2
         IN  EncodeRange(t, lo, mid) \o EncodeRange(t, mid + 1, hi)

\* kafka_utils.to_json, lines 35-36
to_json(data) == LET s == dumps(data) IN EncodeRange(s, 1, Len(s))

\* bytes.decode("utf-8"): the byte at i is a continuation byte
IsCont(b, i) == i <= Len(b) /\ b[i] >= 128 /\ b[i] <= 191

\* the length of the UTF-8 sequence that the byte c begins (0: it begins none)
SeqLen(c) ==
    IF c < 128 THEN 1
    ELSE IF c >= 194 /\ c <= 223 THEN 2
    ELSE IF c >= 224 /\ c <= 239 THEN 3
    ELSE IF c >= 240 /\ c <= 244 THEN 4
    ELSE 0

\* the sequence that begins at i is complete and is not an overlong form, a
\* surrogate or a value above U+10FFFF
WellFormedAt(b, i) ==
    /\ SeqLen(b[i]) > 0
    /\ \A k \in 1..(SeqLen(b[i]) - 1) : IsCont(b, i + k)
    /\ b[i] = 224 => b[i + 1] >= 160
    /\ b[i] = 237 => b[i + 1] <= 159
    /\ b[i] = 240 => b[i + 1] >= 144
    /\ b[i] = 244 => b[i + 1] <= 143

\* the code point of the well-formed sequence that begins at i
CodePointAt(b, i) ==
    LET c == b[i]
        n == SeqLen(c)
    IN  IF n = 1 THEN c
        ELSE IF n = 2 THEN (c - 192) * 64 + (b[i + 1] - 128)
        ELSE IF n = 3
             THEN (c - 224) * 4096 + (b[i + 1] - 128) * 64 + (b[i + 2] - 128)
        ELSE (c - 240) * 262144 + (b[i + 1] - 128) * 4096
             + (b[i + 2] - 128) * 64 + (b[i + 3] - 128)

\* the code points of the sequences that begin at the positions lo..hi of b
\* (by halves)
RECURSIVE DecodeRange(_, _, _)
DecodeRange(b, lo, hi) ==
    IF lo > hi THEN <<>>
    ELSE IF lo = hi THEN (IF IsCont(b, lo) THEN <<>> ELSE <<CodePointAt(b, lo)>>)
    ELSE LET mid == (lo + hi) \div 2
         IN  DecodeRange(b, lo, mid) \o DecodeRange(b, mid + 1, hi)

\* bytes.decode("utf-8"): ok and the code points, or not ok
\* (UnicodeDecodeError).  The bytes that are not continuation bytes begin the
\* sequences; each must be well formed and end where the next one begins
DecodeUtf8(b) ==
    IF /\ Len(b) > 0 => ~IsCont(b, 1)
       /\ \A i \in 1..Len(b) :
             ~IsCont(b, i) =>
                 /\ WellFormedAt(b, i)
                 /\ i + SeqLen(b[i]) = Len(b) + 1 \/ ~IsCont(b, i + SeqLen(b[i]))
    THEN [ok |-> TRUE, v |-> DecodeRange(b, 1, Len(b))]
    ELSE [ok |-> FALSE, v |-> <<>>]

\* json.decoder: what a failed scan returns
ScanFail == [ok |-> FALSE, v |-> <<>>, i |-> 0]

ScanOk(val, next) == [ok |-> TRUE, v |-> val, i |-> next]

\* json.decoder WHITESPACE: the index of the first character at or after i
\* that is not a space, tab, line feed or carriage return
RECURSIVE SkipWs(_, _)
SkipWs(s, i) ==
    IF i <= Len(s) /\ s[i] \in {32, 9, 10, 13} THEN SkipWs(s, i + 1) ELSE i

\* the text lit stands at position i of s
Match(s, i, lit) ==
    /\ i + Len(lit) - 1 <= Len(s)
    /\ \A k \in 1..Len(lit) : s[i + k - 1] = lit[k]

IsDigit(c) == c >= 48 /\ c <= 57

IsHexDigit(c) == IsDigit(c) \/ (c >= 97 /\ c <= 102) \/ (c >= 65 /\ c <= 70)

HexVal(c) == IF IsDigit(c) THEN c - 48 ELSE IF c >= 97 THEN c - 87 ELSE c - 55

\* json.decoder BACKSLASH: the character a one-letter escape stands for
Unescape(e) ==
    IF e = 98 THEN 8
    ELSE IF e = 102 THEN 12
    ELSE IF e = 110 THEN 10
    ELSE IF e = 114 THEN 13
    ELSE IF e = 116 THEN 9
    ELSE e

\* json.decoder.py_scanstring (strict) from position i, after the opening
\* quote: the text up to the closing quote.  A control character, an unknown
\* escape or a missing closing quote is an error.  (A \uXXXX escape is one
\* code point here: the pairing of surrogate escapes is not modelled, to_json
\* writes such escapes for control characters only.)
RECURSIVE StrFrom(_, _)
StrFrom(s, i) ==
    IF i > Len(s) THEN ScanFail
    ELSE IF s[i] = 34 THEN ScanOk(<<>>, i + 1)
    ELSE IF s[i] < 32 THEN ScanFail
    ELSE IF s[i] # 92
         THEN LET rest == StrFrom(s, i + 1)
              IN  IF rest.ok THEN ScanOk(<<s[i]>> \o rest.v, rest.i) ELSE rest
    ELSE IF i + 1 > Len(s) THEN ScanFail
    ELSE IF s[i + 1] \in {34, 92, 47, 98, 102, 110, 114, 116}
         THEN LET rest == StrFrom(s, i + 2)
              IN  IF rest.ok THEN ScanOk(<<Unescape(s[i + 1])>> \o rest.v, rest.i)
                  ELSE rest
    ELSE IF /\ s[i + 1] = 117
            /\ i + 5 <= Len(s)
            /\ \A k \in 2..5 : IsHexDigit(s[i + k])
         THEN LET rest == StrFrom(s, i + 6)
                  cp == HexVal(s[i + 2]) * 4096 + HexVal(s[i + 3]) * 256
                        + HexVal(s[i + 4]) * 16 + HexVal(s[i + 5])
              IN  IF rest.ok THEN ScanOk(<<cp>> \o rest.v, rest.i) ELSE rest
    ELSE ScanFail

\* the index after the run of digits that starts at i
RECURSIVE DigitsEnd(_, _)
DigitsEnd(s, i) == IF i <= Len(s) /\ IsDigit(s[i]) THEN DigitsEnd(s, i + 1) ELSE i

RECURSIVE DigitsValue(_, _, _)
DigitsValue(s, i, j) ==
    IF j <= i THEN 0 ELSE DigitsValue(s, i, j - 1) * 10 + (s[j - 1] - 48)

\* json.scanner NUMBER_RE, integers only: an optional minus sign, then 0 or a
\* digit 1-9 followed by digits (no input of the model holds ".", "e" or "E")
ScanNumber(s, i) ==
    LET d == IF s[i] = 45 THEN i + 1 ELSE i
        e == IF d <= Len(s) /\ s[d] = 48 THEN d + 1 ELSE DigitsEnd(s, d)
    IN  IF e = d THEN ScanFail
        ELSE ScanOk([t |-> "number",
                     v |-> IF d > i THEN 0 - DigitsValue(s, d, e)
                           ELSE DigitsValue(s, d, e)], e)

\* dict(pairs): a later member with the same key replaces an earlier one
ObjectOf(pairs) ==
    [k \in {pairs[n][1] : n \in DOMAIN pairs} |->
        LET last == CHOOSE n \in DOMAIN pairs :
                       /\ pairs[n][1] = k
                       /\ \A m \in DOMAIN pairs : pairs[m][1] = k => m <= n
        IN  pairs[last][2]]

\* json.scanner.py_make_scanner._scan_once, json.decoder.JSONArray and
\* JSONObject: the value that starts at i (after whitespace)
RECURSIVE ScanValue(_, _)
RECURSIVE ElemsFrom(_, _)
RECURSIVE PairsFrom(_, _)
ScanValue(s, i0) ==
    LET i == SkipWs(s, i0)
    IN  IF i > Len(s) THEN ScanFail
        ELSE IF s[i] = 34
             THEN LET r == StrFrom(s, i + 1)
                  IN  IF r.ok THEN ScanOk([t |-> "string", v |-> r.v], r.i) ELSE r
        ELSE IF s[i] = 123
             THEN LET j == SkipWs(s, i + 1)
                  IN  IF j <= Len(s) /\ s[j] = 125
                      THEN ScanOk([t |-> "object", v |-> ObjectOf(<<>>)], j + 1)
                      ELSE LET r == PairsFrom(s, j)
                           IN  IF r.ok
                               THEN ScanOk([t |-> "object", v |-> ObjectOf(r.v)], r.i)
                               ELSE r
        ELSE IF s[i] = 91
             THEN LET j == SkipWs(s, i + 1)
                  IN  IF j <= Len(s) /\ s[j] = 93
                      THEN ScanOk([t |-> "array", v |-> <<>>], j + 1)
                      ELSE LET r == ElemsFrom(s, j)
                           IN  IF r.ok THEN ScanOk([t |-> "array", v |-> r.v], r.i)
                               ELSE r
        ELSE IF Match(s, i, <<110, 117, 108, 108>>)
             THEN ScanOk([t |-> "null", v |-> <<>>], i + 4)
        ELSE IF Match(s, i, <<116, 114, 117, 101>>)
             THEN ScanOk([t |-> "true", v |-> <<>>], i + 4)
        ELSE IF Match(s, i, <<102, 97, 108, 115, 101>>)
             THEN ScanOk([t |-> "false", v |-> <<>>], i + 5)
        ELSE IF s[i] = 45 \/ IsDigit(s[i]) THEN ScanNumber(s, i)
        ELSE ScanFail

\* the elements of an array from i on, up to and including "]"
ElemsFrom(s, i) ==
    LET r == ScanValue(s, i)
    IN  IF ~r.ok THEN r
        ELSE LET j == SkipWs(s, r.i)
             IN  IF j > Len(s) THEN ScanFail
                 ELSE IF s[j] = 93 THEN ScanOk(<<r.v>>, j + 1)
                 ELSE IF s[j] = 44
                      THEN LET rest == ElemsFrom(s, j + 1)
                           IN  IF rest.ok THEN ScanOk(<<r.v>> \o rest.v, rest.i)
                               ELSE rest
                 ELSE ScanFail

\* the members of an object from i on (whitespace skipped), up to and
\* including "}": a string key, ":", a value, then "," or "}"
PairsFrom(s, i) ==
    IF i > Len(s) \/ s[i] # 34 THEN ScanFail
    ELSE LET key == StrFrom(s, i + 1)
         IN  IF ~key.ok THEN key
             ELSE LET c == SkipWs(s, key.i)
                  IN  IF c > Len(s) \/ s[c] # 58 THEN ScanFail
                      ELSE LET r == ScanValue(s, c + 1)
                           IN  IF ~r.ok THEN r
                               ELSE LET j == SkipWs(s, r.i)
                                    IN  IF j > Len(s) THEN ScanFail
                                        ELSE IF s[j] = 125
                                             THEN ScanOk(<<<<key.v, r.v>>>>, j + 1)
                                        ELSE IF s[j] = 44
                                             THEN LET rest == PairsFrom(s, SkipWs(s, j + 1))
                                                  IN  IF rest.ok
                                                      THEN ScanOk(<<<<key.v, r.v>>>> \o rest.v,
                                                                  rest.i)
                                                      ELSE rest
                                        ELSE ScanFail

\* json.loads(s): one value, whitespace around it, nothing after it
loads(s) ==
    LET r == ScanValue(s, 1)
    IN  IF r.ok /\ SkipWs(s, r.i) = Len(s) + 1 THEN r.v
        ELSE [t |-> "JSONDecodeError", v |-> <<>>]

\* kafka_utils.from_json, lines 38-41, for bytes
from_json(bytes) ==
    LET u == DecodeUtf8(bytes)
    IN  IF u.ok THEN loads(u.v) ELSE [t |-> "UnicodeDecodeError", v |-> <<>>]

\* the Python dict of an envelope as a value
DictOf(data) == [t |-> "object", v |-> [k \in DOMAIN data |-> [t |-> "string", v |-> data[k]]]]

InitCodec ==
    /\ InitIdle
    /\ mode = "codec"
    /\ log = <<>>
    /\ pc = "idle"
    /\ loop_forever = TRUE
    /\ max_messages = 0

CodecFrame ==
    UNCHANGED <<storageVars, brokerVars, consumerVars, asyncVars, producerVars, runVars,
                pollVars, fetchVars, running, rstate>>

\* to_json is called with an envelope
CallToJson ==
    /\ cpc = "idle"
    /\ \E data \in Envelopes :
          /\ env' = data
          /\ wire' = to_json(data)
    /\ cpc' = "encoded"
    /\ decoded' = decoded
    /\ CodecFrame

\* a message value arrives that to_json did not write
ReceiveBytes ==
    /\ cpc = "idle"
    /\ \E b \in RawInputs : wire' = b
    /\ cpc' = "received"
    /\ UNCHANGED <<env, decoded>>
    /\ CodecFrame

\* from_json is called with the bytes
CallFromJson ==
    /\ cpc \in {"encoded", "received"}
    /\ decoded' = from_json(wire)
    /\ cpc' = IF cpc = "encoded" THEN "roundtrip" ELSE "decoded"
    /\ UNCHANGED <<env, wire>>
    /\ CodecFrame

NextCodec ==
    \/ CallToJson
    \/ ReceiveBytes
    \/ CallFromJson

SpecCodec == InitCodec /\ [][NextCodec]_vars

(***************************************************************************)
(* The record the consumers publish to the cleaned topic, as a dict:       *)
(* {**payload, "full_content": enriched["full_content"],                   *)
(*  "enriched_at": now_iso()}.  A dict is a function from its keys.        *)
(***************************************************************************)
\* the keys of the envelope build_message writes (kafka_producer.py 45-55)
RawKeys ==
    {"id", "title", "link", "publish_date", "source", "category", "summary",
     "fetched_at"}

\* the keys the consumers add
AddedKeys == {"full_content", "enriched_at"}

FieldValues == {"a", "b"}

\* values of now_iso()
Stamps == {"t1", "t2"}

\* the key sets of the decoded payloads: the producer's envelope, one with a
\* key left out, one with a foreign key, one that already has full_content
PayloadKeySets ==
    {RawKeys, RawKeys \ {"publish_date"}, RawKeys \cup {"lang"},
     RawKeys \cup {"full_content"}}

Payloads == UNION {[K -> FieldValues] : K \in PayloadKeySets}

\* {**d, k: v}
DictWith(d, k, v) == [x \in DOMAIN d \cup {k} |-> IF x = k THEN v ELSE d[x]]

\* faulty variant: the record is rebuilt from the fields handed to the scrape
enriched_recordMutRebuilt(payload, full_content, now) ==
    DictWith(DictWith([k \in DOMAIN payload \ {"id", "fetched_at"} |-> payload[k]],
                      "full_content", full_content),
             "enriched_at", now)

\* kafka_scraper_consumer.py lines 102-106 and
\* kafka_scraper_async_consumer.py line 88
enriched_record(payload, full_content, now) ==
    DictWith(DictWith(payload, "full_content", full_content), "enriched_at", now)

InitEnrich ==
    /\ InitIdle
    /\ mode = "enrich"
    /\ log = <<>>
    /\ pc = "idle"
    /\ loop_forever = TRUE
    /\ max_messages = 0

\* a payload was decoded and scraped, and the record to publish is built:
\* env is the payload, wire the scraped text and the timestamp
BuildEnrichedRecord ==
    /\ cpc = "idle"
    /\ \E payload \in Payloads, c \in Contents, now \in Stamps :
          /\ env' = payload
          /\ wire' = <<c, now>>
          /\ decoded' = enriched_record(payload, c, now)
    /\ cpc' = "built"
    /\ CodecFrame

NextEnrich == BuildEnrichedRecord

SpecEnrich == InitEnrich /\ [][NextEnrich]_vars

(***************************************************************************)
(* kafka_utils.build_consumer and build_async_consumer: the configuration  *)
(* handed to the client library.  A dict is a function from its keys.      *)
(***************************************************************************)
Builders == {"build_consumer", "build_async_consumer"}

GroupIds == {"scraper-workers", "other-group"}

\* the names of the three settings in confluent-kafka and in aiokafka
GroupKey(b) == IF b = "build_consumer" THEN "group.id" ELSE "group_id"

AutoCommitKey(b) ==
    IF b = "build_consumer" THEN "enable.auto.commit" ELSE "enable_auto_commit"

ResetKey(b) ==
    IF b = "build_consumer" THEN "auto.offset.reset" ELSE "auto_offset_reset"

\* a setting the builders do not set themselves
ClientKey(b) == IF b = "build_consumer" THEN "client.id" ELSE "client_id"

\* lines 134-141 and 152-158: the defaults
BaseConfig(b, group_id) ==
    [k \in {GroupKey(b), AutoCommitKey(b), ResetKey(b), "session timeout"} |->
        IF k = GroupKey(b) THEN group_id
        ELSE IF k = AutoCommitKey(b) THEN "False"
        ELSE IF k = ResetKey(b) THEN "earliest"
        ELSE "45000"]

\* the config arguments of a caller: any of the four settings with any of a
\* few values; the empty dict stands for None as well (both are falsy)
CallerConfigs(b) ==
    UNION {[K -> {"True", "False", "latest", "earliest", "x"}] :
              K \in SUBSET {GroupKey(b), AutoCommitKey(b), ResetKey(b), ClientKey(b)}}

\* dict.update
Update(base, config) ==
    [k \in DOMAIN base \cup DOMAIN config |->
        IF k \in DOMAIN config THEN config[k] ELSE base[k]]

\* lines 142-143 and 159-160: "if config: base.update(config)"
MergedConfig(b, group_id, config) ==
    IF DOMAIN config = {} THEN BaseConfig(b, group_id)
    ELSE Update(BaseConfig(b, group_id), config)

InitConfig ==
    /\ InitIdle
    /\ mode = "config"
    /\ log = <<>>
    /\ pc = "idle"
    /\ loop_forever = TRUE
    /\ max_messages = 0

\* a consumer is built: env is the caller's config, wire the builder and the
\* group id, decoded the configuration the client is created with
BuildConsumer ==
    /\ cpc = "idle"
    /\ \E b \in Builders, g \in GroupIds :
          \E config \in CallerConfigs(b) :
             /\ env' = config
             /\ wire' = <<b, g>>
             /\ decoded' = MergedConfig(b, g, config)
    /\ cpc' = "configured"
    /\ CodecFrame

NextConfig == BuildConsumer

SpecConfig == InitConfig /\ [][NextConfig]_vars

(***************************************************************************)
(* fetch_multiple_feeds with the deduplicator (newsbot/main.py,            *)
(* newsbot/deduplicator.py), followed by the publication of produce_batch. *)
(***************************************************************************)
MaxFeed == 2

\* the keys of RSS_FEEDS the caller may name, and a name that is no key
Registry == {"tech", "finance"}
CategoryNames == Registry \cup {"nope"}

\* feed_categories: none, one or two names, a name possibly twice
CategoryLists ==
    {<<>>} \cup {<<a>> : a \in CategoryNames}
           \cup {<<a, b>> : a \in CategoryNames, b \in CategoryNames}

\* the articles fetch_rss_feed returns: title and link are never empty
\* (main.py lines 63-64)
FeedTitles == {"News", "NEWS", "Sport"}
FeedArticles == [link : Links, title : FeedTitles, content : {"s"}]

\* str.strip().lower() of the titles above
Lower(t) == IF t \in {"News", "NEWS"} THEN "news" ELSE "sport"

\* generate_content_hash: md5 of the lowered title followed by the lowered
\* first 200 characters of the content (two articles have one hash exactly
\* when these strings are equal)
generate_content_hash(article) == Lower(article.title) \o article.content

\* calculate_title_similarity >= title_similarity_threshold: the ratio of
\* SequenceMatcher over the lowered titles is 1.0 for "news"/"news" and 2/9 for
\* "news"/"sport"
SimilarTitles(t1, t2) == Lower(t1) = Lower(t2)

\* is_duplicate_url, the test (a new url is added to seen_urls by the caller)
\* faulty variant: no url is ever taken for seen
is_duplicate_urlMutNever(url, urls) == FALSE

is_duplicate_url(url, urls) == url \in urls

\* is_duplicate_content, the test: a seen hash, or a title similar to one of
\* the articles kept so far in this call
is_duplicate_content(article, hashes, existing) ==
    \/ generate_content_hash(article) \in hashes
    \/ \E i \in 1..Len(existing) : SimilarTitles(article.title, existing[i].title)

\* deduplicate_articles from the i-th article on; st holds seen_urls,
\* seen_hashes, unique_articles and duplicate_count
RECURSIVE DedupFrom(_, _, _)
DedupFrom(articles, i, st) ==
    IF i > Len(articles) THEN st
    ELSE LET a == articles[i]
             s1 == [st EXCEPT !.urls = @ \cup {a.link}]
         IN  IF is_duplicate_url(a.link, st.urls)
             THEN DedupFrom(articles, i + 1, [st EXCEPT !.dup = @ + 1])
             ELSE IF is_duplicate_content(a, s1.hashes, s1.unique)
             THEN DedupFrom(articles, i + 1, [s1 EXCEPT !.dup = @ + 1])
             ELSE DedupFrom(articles, i + 1,
                            [s1 EXCEPT !.hashes = @ \cup {generate_content_hash(a)},
                                       !.unique = Append(@, a)])

deduplicate_articles(articles, urls, hashes) ==
    DedupFrom(articles, 1, [urls |-> urls, hashes |-> hashes, unique |-> <<>>, dup |-> 0])

\* all_articles[category] = category_articles on a dict that keeps the order
\* of the first insertion
DictPut(d, k, v) ==
    IF \E i \in 1..Len(d) : d[i].cat = k
    THEN [i \in 1..Len(d) |-> IF d[i].cat = k THEN [cat |-> k, arts |-> v] ELSE d[i]]
    ELSE Append(d, [cat |-> k, arts |-> v])

\* kafka_producer._flatten_articles
RECURSIVE FlattenFrom(_, _)
FlattenFrom(d, i) == IF i > Len(d) THEN <<>> ELSE d[i].arts \o FlattenFrom(d, i + 1)

_flatten_articles(d) == FlattenFrom(d, 1)

InitFetch ==
    /\ InitIdle
    /\ mode = "fetch"
    /\ log = <<>>
    /\ pc = "idle"
    /\ loop_forever = TRUE
    /\ max_messages = 0

\* kafka_producer.py line 59 and main.py lines 102-116: produce_batch calls
\* fetch_multiple_feeds, which creates one deduplicator for the whole call
CallFetch ==
    /\ ppc = "idle"
    /\ \E cats \in CategoryLists : todo' = cats
    /\ seen_urls' = {}
    /\ seen_hashes' = {}
    /\ all_articles' = <<>>
    /\ fstats' = [total_articles |-> 0, total_duplicates |-> 0]
    /\ calls' = calls + 1
    /\ psnap' = [m |-> metrics, raw |-> Len(raw)]
    /\ ppc' = "fetch"
    /\ UNCHANGED <<storageVars, brokerVars, consumerVars, asyncVars, records, idx, produced,
                   raw, ptrace, runVars, pollVars, codecVars, lastDedup, running, rstate>>

\* main.py lines 118-148: one round of the loop over feed_categories: a name
\* that is no key of the registry is skipped; otherwise the articles of the
\* feeds of the category are collected, deduplicated and stored in the mapping
FetchCategory ==
    /\ ppc = "fetch"
    /\ todo # <<>>
    /\ todo' = Tail(todo)
    /\ IF Head(todo) \notin Registry
       THEN UNCHANGED <<seen_urls, seen_hashes, all_articles, fstats, lastDedup>>
       ELSE \E category_articles \in SeqsUpTo(FeedArticles, MaxFeed) :
               LET r == deduplicate_articles(category_articles, seen_urls, seen_hashes)
               IN  /\ seen_urls' = r.urls
                   /\ seen_hashes' = r.hashes
                   /\ all_articles' = DictPut(all_articles, Head(todo), r.unique)
                   /\ fstats' = [total_articles |->
                                     fstats.total_articles + Len(category_articles),
                                 total_duplicates |-> fstats.total_duplicates + r.dup]
                   /\ lastDedup' = [input |-> Len(category_articles),
                                    unique |-> Len(r.unique), duplicates |-> r.dup]
    /\ UNCHANGED <<storageVars, brokerVars, consumerVars, asyncVars, producerVars, runVars,
                   pollVars, codecVars, running, rstate>>

\* kafka_producer.py lines 59-62: the mapping is returned and flattened, and
\* the loop over the records begins
FetchReturn ==
    /\ ppc = "fetch"
    /\ todo = <<>>
    /\ records' = _flatten_articles(all_articles)
    /\ idx' = 1
    /\ produced' = 0
    /\ ptrace' = <<>>
    /\ ppc' = IF _flatten_articles(all_articles) = <<>> THEN "flush" ELSE "produce"
    /\ UNCHANGED <<storageVars, brokerVars, consumerVars, asyncVars, raw, calls, psnap,
                   runVars, pollVars, codecVars, fetchVars, running, rstate>>

NextFetch ==
    \/ CallFetch
    \/ FetchCategory
    \/ FetchReturn
    \/ Produce
    \/ Retry
    \/ FinalFlush

SpecFetch == InitFetch /\ [][NextFetch]_vars

(***************************************************************************)
(* One batch of the async consumer on its event loop                       *)
(* (kafka_scraper_async_consumer.process_message): the code of a task runs *)
(* on the loop's thread from one await to the next; only the scrape runs   *)
(* on an executor thread.  storage.save_article takes time: it is entered  *)
(* in one step and left in another.                                        *)
(***************************************************************************)
LoopFrame ==
    UNCHANGED <<hist, lastResult, lastCall, log, committed, pc, loop_forever, max_messages,
                flag, position, processed, cur, enriched, failCause, snap, trace, outcome,
                startPos, restarts, replay, polled, tasks, commits, producerVars, runVars,
                pollVars, codecVars, fetchVars, rstate>>

\* run_async_consumer lines 124-137: a batch has been dispatched and gather
\* waits for its tasks
InitEventLoop ==
    /\ InitIdle
    /\ mode = "eventloop"
    /\ log \in SeqsOfLen({BadJson, Object("L1"), Object("L2")}, MaxLog)
    /\ pc = "idle"
    /\ loop_forever = TRUE
    /\ max_messages = 0

BatchDispatched ==
    /\ pc = "idle"
    /\ pc' = "gather"
    /\ tasks' = 1..Len(log)
    /\ polled' = 1..Len(log)
    /\ position' = Len(log) + 1
    /\ processed' = Len(log)
    /\ units' = [o \in Offsets |->
                    IF o \in 1..Len(log)
                    THEN [st |-> "waiting", fc |-> None, err |-> None, alert |-> None]
                    ELSE units[o]]
    /\ UNCHANGED <<storageVars, brokerVars, loop_forever, max_messages, flag, metrics, cur,
                   enriched, failCause, snap, trace, outcome, startPos, restarts, replay,
                   sem, commits, producerVars, runVars, pollVars, codecVars, fetchVars,
                   running, rstate>>

\* lines 61-74: the loop runs the task from the semaphore to its first await,
\* the scrape handed to the executor (or to the alert publish when the
\* message does not decode)
TaskStart(o) ==
    /\ pc = "gather" /\ running = 0
    /\ units[o].st = "waiting"
    /\ sem > 0
    /\ sem' = SemAcquire(sem)
    /\ IF DecodeRaises(log[o])
       THEN /\ metrics' = Bump(Bump(metrics, "messages_consumed"), "processing_failures")
            /\ units' = [units EXCEPT ![o] = [st |-> "alerting", fc |-> None,
                                              err |-> "decode error", alert |-> None]]
       ELSE /\ metrics' = Bump(metrics, "messages_consumed")
            /\ units' = [units EXCEPT ![o].st = "enriching"]
    /\ UNCHANGED <<store, cleaned, alerts, running, rstate>>
    /\ LoopFrame

\* lines 53-57: fetch_full_articles ends on its executor thread, whatever the
\* loop's thread is doing: it raised, found nothing, or found the content
ScrapeDone(o) ==
    /\ units[o].st = "enriching"
    /\ \/ units' = [units EXCEPT ![o] = [st |-> "ready", fc |-> None,
                                        err |-> "AttributeError", alert |-> None]]
       \/ units' = [units EXCEPT ![o] = [st |-> "ready", fc |-> None,
                                        err |-> "Full content fetch failed",
                                        alert |-> None]]
       \/ \E c \in Contents :
             units' = [units EXCEPT ![o] = [st |-> "ready", fc |-> c, err |-> None,
                                            alert |-> None]]
    /\ UNCHANGED <<store, cleaned, alerts, metrics, sem, running, rstate>>
    /\ LoopFrame

\* lines 74-78: the loop resumes the task after the scrape: without a result
\* it goes to its except branch and awaits the alert publish; with one it
\* calls storage.save_article, a plain call on the loop's thread
\* faulty variant: the upsert is handed to the executor and awaited, so the
\* loop's thread is free while it runs
TaskResumeMutExecutor(o) ==
    /\ pc = "gather" /\ running = 0
    /\ units[o].st = "ready"
    /\ IF units[o].err # None
       THEN /\ metrics' = Bump(metrics, "processing_failures")
            /\ units' = [units EXCEPT ![o].st = "alerting"]
       ELSE /\ metrics' = metrics
            /\ units' = [units EXCEPT ![o].st = "saving"]
    /\ running' = 0
    /\ UNCHANGED <<store, cleaned, alerts, sem>>
    /\ LoopFrame

TaskResume(o) ==
    /\ pc = "gather" /\ running = 0
    /\ units[o].st = "ready"
    /\ IF units[o].err # None
       THEN /\ metrics' = Bump(metrics, "processing_failures")
            /\ units' = [units EXCEPT ![o].st = "alerting"]
            /\ running' = 0
       ELSE /\ metrics' = metrics
            /\ units' = [units EXCEPT ![o].st = "saving"]
            /\ running' = o
    /\ UNCHANGED <<store, cleaned, alerts, sem>>
    /\ LoopFrame

\* lines 79-90: save_article returns, the enriched record is built and the
\* task awaits its publish; the loop's thread is free again
SaveReturns(o) ==
    /\ units[o].st = "saving"
    /\ \E dbRaises \in BOOLEAN :
          store' = SaveArticleStore(store, SaveArg(BaseArticle(log[o]), units[o].fc), dbRaises)
    /\ units' = [units EXCEPT ![o].st = "publishing"]
    /\ running' = 0
    /\ UNCHANGED <<cleaned, alerts, metrics, sem>>
    /\ LoopFrame

\* lines 89-95: the loop resumes the task after send_and_wait, which
\* succeeded or raised; the task ends and gives its permit back
SendDone(o) ==
    /\ pc = "gather" /\ running = 0
    /\ units[o].st = "publishing"
    /\ \/ /\ cleaned' = Append(cleaned, EnrichedRecord(log[o], units[o].fc))
          /\ metrics' = Bump(Bump(metrics, "messages_produced"), "processing_success")
       \/ /\ cleaned' = cleaned
          /\ metrics' = Bump(Bump(metrics, "produce_errors"), "processing_success")
    /\ units' = [units EXCEPT ![o].st = "SUCCESS"]
    /\ sem' = SemRelease(sem)
    /\ UNCHANGED <<store, alerts, running, rstate>>
    /\ LoopFrame

\* lines 99-103: the loop resumes the task after the alert publish, whose
\* error is swallowed; the task ends and gives its permit back
AlertDone(o) ==
    /\ pc = "gather" /\ running = 0
    /\ units[o].st = "alerting"
    /\ \/ alerts' = Append(alerts, AlertPayload(units[o].err))
       \/ alerts' = alerts
    /\ units' = [units EXCEPT ![o].st = "FAILURE"]
    /\ sem' = SemRelease(sem)
    /\ UNCHANGED <<store, cleaned, metrics, running, rstate>>
    /\ LoopFrame

NextEventLoop ==
    \/ BatchDispatched
    \/ \E o \in Offsets : TaskStart(o)
    \/ \E o \in Offsets : ScrapeDone(o)
    \/ \E o \in Offsets : TaskResume(o)
    \/ \E o \in Offsets : SaveReturns(o)
    \/ \E o \in Offsets : SendDone(o)
    \/ \E o \in Offsets : AlertDone(o)

SpecEventLoop == InitEventLoop /\ [][NextEventLoop]_vars

(***************************************************************************)
(* kafka_utils.retry(func, attempts, base_sleep)                           *)
(***************************************************************************)
MaxAttempts == 3

\* what func may return, the exceptions it may raise (subclasses of
\* Exception), and one that is not an Exception
FuncValues == {"v1", "v2"}
FuncErrors == {"BufferError", "KafkaException"}
BaseErrors == {"SystemExit"}

\* base_sleep in units of a quarter second (the default is 0.5)
BaseSleeps == {1, 2}

RECURSIVE Pow2(_)
Pow2(n) == IF n = 0 THEN 1 ELSE 2 * Pow2(n - 1)

\* line 235: sleep = base_sleep * (2 ** (attempt - 1))
SleepTime(base_sleep, attempt) == base_sleep * Pow2(attempt - 1)

RetryFrame ==
    UNCHANGED <<storageVars, brokerVars, consumerVars, asyncVars, producerVars, runVars,
                pollVars, codecVars, fetchVars, running>>

InitRetry ==
    /\ InitIdle
    /\ mode = "retry"
    /\ log = <<>>
    /\ pc = "idle"
    /\ loop_forever = TRUE
    /\ max_messages = 0

\* line 229: retry is called; range(1, attempts + 1) is empty for attempts
\* < 1, and then the function ends without a return statement
CallRetry ==
    /\ rstate.rpc = "idle"
    /\ \E n \in 0..MaxAttempts, b \in BaseSleeps :
          rstate' = [rpc |-> IF n >= 1 THEN "call" ELSE "returned",
                     attempts |-> n, attempt |-> IF n >= 1 THEN 1 ELSE 0,
                     base_sleep |-> b, events |-> <<>>,
                     result |-> [kind |-> "none", of |-> 0, what |-> None]]
    /\ RetryFrame

\* lines 230-234: func is called: its value is returned; an Exception is
\* re-raised on the last attempt and leads to the sleep otherwise; any other
\* exception is not caught
\* faulty variant: the sleep is taken after the last failed attempt as well,
\* before the exception is raised
CallFuncMutSleepLast ==
    /\ rstate.rpc = "call"
    /\ \/ \E v \in FuncValues :
             rstate' = [rstate EXCEPT
                  !.rpc = "returned",
                  !.events = Append(@, [kind |-> "ok", of |-> rstate.attempt, what |-> v]),
                  !.result = [kind |-> "value", of |-> rstate.attempt, what |-> v]]
       \/ \E e \in FuncErrors :
             IF rstate.attempt = rstate.attempts
             THEN rstate' = [rstate EXCEPT
                  !.rpc = "raised",
                  !.events = @ \o <<[kind |-> "exc", of |-> rstate.attempt, what |-> e],
                                    [kind |-> "sleep",
                                     of |-> SleepTime(rstate.base_sleep, rstate.attempt),
                                     what |-> None]>>,
                  !.result = [kind |-> "exception", of |-> rstate.attempt, what |-> e]]
             ELSE rstate' = [rstate EXCEPT
                  !.rpc = "sleep",
                  !.events = Append(@, [kind |-> "exc", of |-> rstate.attempt, what |-> e])]
       \/ \E e \in BaseErrors :
             rstate' = [rstate EXCEPT
                  !.rpc = "raised",
                  !.events = Append(@, [kind |-> "base", of |-> rstate.attempt, what |-> e]),
                  !.result = [kind |-> "exception", of |-> rstate.attempt, what |-> e]]
    /\ RetryFrame

CallFunc ==
    /\ rstate.rpc = "call"
    /\ \/ \E v \in FuncValues :
             rstate' = [rstate EXCEPT
                  !.rpc = "returned",
                  !.events = Append(@, [kind |-> "ok", of |-> rstate.attempt, what |-> v]),
                  !.result = [kind |-> "value", of |-> rstate.attempt, what |-> v]]
       \/ \E e \in FuncErrors :
             IF rstate.attempt = rstate.attempts
             THEN rstate' = [rstate EXCEPT
                  !.rpc = "raised",
                  !.events = Append(@, [kind |-> "exc", of |-> rstate.attempt, what |-> e]),
                  !.result = [kind |-> "exception", of |-> rstate.attempt, what |-> e]]
             ELSE rstate' = [rstate EXCEPT
                  !.rpc = "sleep",
                  !.events = Append(@, [kind |-> "exc", of |-> rstate.attempt, what |-> e])]
       \/ \E e \in BaseErrors :
             rstate' = [rstate EXCEPT
                  !.rpc = "raised",
                  !.events = Append(@, [kind |-> "base", of |-> rstate.attempt, what |-> e]),
                  !.result = [kind |-> "exception", of |-> rstate.attempt, what |-> e]]
    /\ RetryFrame

\* lines 235-237 and 229: the warning, time.sleep, and the next round of the
\* loop
SleepThenNext ==
    /\ rstate.rpc = "sleep"
    /\ rstate' = [rstate EXCEPT
                    !.events = Append(@, [kind |-> "sleep",
                                          of |-> SleepTime(rstate.base_sleep, rstate.attempt),
                                          what |-> None]),
                    !.attempt = @ + 1,
                    !.rpc = "call"]
    /\ RetryFrame

NextRetry ==
    \/ CallRetry
    \/ CallFunc
    \/ SleepThenNext

SpecRetry == InitRetry /\ [][NextRetry]_vars

(***************************************************************************)
(* The storage alone: save_article called directly with any article.       *)
(***************************************************************************)
\* the articles a caller passes: every key present except, possibly, the title
\* and the optional full_content and full_content_status
Articles ==
    [title : {Absent, "T1", "T2"},
     link : Links,
     publish_date : {"d"},
     source : {"S"},
     category : {"c"},
     content : {"", "s"},
     full_content : {None, ""} \cup Contents,
     full_content_status : {Absent, "SUCCESS", "OTHER", "bogus"}]

InitStorage ==
    /\ InitIdle
    /\ mode = "storage"
    /\ log = <<>>
    /\ pc = "idle"
    /\ loop_forever = TRUE
    /\ max_messages = 0

\* one call of NewsStorage.save_article (lines 44-135)
SaveArticle ==
    /\ pc = "idle"
    /\ Len(hist) < MaxCalls
    /\ \E article \in Articles, dbRaises \in BOOLEAN :
          /\ store' = SaveArticleStore(store, article, dbRaises)
          /\ lastResult' = SaveArticleResult(store, article, dbRaises)
          /\ lastCall' = [link |-> article.link, title |-> article.title]
          /\ hist' = IF Applied(article, dbRaises)
                     THEN Append(hist, [link |-> article.link,
                                        full_content |-> Get(article, "full_content")])
                     ELSE hist
    /\ UNCHANGED <<brokerVars, consumerVars, asyncVars, producerVars,
                   runVars, pollVars, codecVars, fetchVars, running, rstate>>

NextStorage == SaveArticle

SpecStorage == InitStorage /\ [][NextStorage]_vars


(***************************************************************************)
(* Properties of the synchronous consumer.                                 *)
(***************************************************************************)
Has(e) == \E i \in 1..Len(trace) : trace[i] = e

Count(E) == Cardinality({i \in 1..Len(trace) : trace[i] \in E})

SaveEvents == {"save_ok", "save_err"}
PublishEvents == {"pub_ok", "pub_err"}
CommitEvents == {"commit_ok", "commit_err"}
AlertEvents == {"alert_ok", "alert_err"}
ScrapeEvents == {"scraped", "scrape_none", "scrape_raise"}

\* the message at offset cur has reached SUCCESS or FAILURE
Handled == cur > 0 /\ pc \in {"loop", "error_event", "finally", "returned"}

\* a step that polls a message
PollStep == metrics'.messages_consumed = metrics.messages_consumed + 1

\* a payload that is not valid JSON, or valid JSON that is not an object
Malformed(msg) == msg.kind \in {"badjson", "nonobject"}

\* C1 (as claimed): the committed offset never covers a message whose latest
\* terminal state is FAILURE; a later message's commit does not move the
\* committed offset past an earlier failed message.
C1_CommittedNeverCoversFailure ==
    \A o \in Offsets : o < committed => outcome[o] # "FAILURE"

\* C2: a commit is invoked for a message only after, for that message and in
\* this order, the payload was decoded, the scrape returned content,
\* save_article returned and the publish to the cleaned topic was attempted;
\* and a message is polled only after the previous one was committed or reached
\* FAILURE.
C2_CommitInOrder ==
    \A i \in 1..Len(trace) :
        trace[i] \in CommitEvents =>
            /\ i = 5
            /\ trace[1] = "decoded"
            /\ trace[2] = "scraped"
            /\ trace[3] \in SaveEvents
            /\ trace[4] \in PublishEvents

C2_PollAfterTerminal ==
    PollStep => (cur = 0 \/ (trace # <<>> /\ trace[Len(trace)] \in {"commit_ok"} \cup AlertEvents))

C2_Ordering == [](C2_CommitInOrder) /\ [][C2_PollAfterTerminal]_vars

C2_Witness == cur = 2 /\ pc = "decode" /\ outcome[1] = "SUCCESS"

\* C3 (as claimed): when the scrape returns no content the message causes no
\* commit and no upsert, exactly one alert of type "enrichment_failure" is
\* published to the alerts topic, processing_failures grows by exactly 1 and
\* processing_success is unchanged.
C3_EnrichmentFailureOneAlert ==
    (Handled /\ Has("scrape_none")) =>
        /\ Count(CommitEvents) = 0 /\ committed = snap.committed
        /\ Count(SaveEvents) = 0 /\ store = snap.rows
        /\ Len(alerts) = snap.alerts + 1
        /\ alerts[Len(alerts)].type = "enrichment_failure"
        /\ metrics.processing_failures = snap.m.processing_failures + 1
        /\ metrics.processing_success = snap.m.processing_success

\* C3 (amended): when the scrape returns no content the message causes no
\* commit and no upsert, exactly one alert of type "enrichment_failure" is
\* handed to the producer and reaches the alerts topic unless that produce call
\* raises (the error is swallowed and no alert is published),
\* processing_failures grows by exactly 1 and processing_success is unchanged.
C3_EnrichmentFailure ==
    (Handled /\ Has("scrape_none")) =>
        /\ Count(CommitEvents) = 0 /\ committed = snap.committed
        /\ Count(SaveEvents) = 0 /\ store = snap.rows
        /\ Count(AlertEvents) = 1
        /\ Has("alert_ok") =>
              /\ Len(alerts) = snap.alerts + 1
              /\ alerts[Len(alerts)].type = "enrichment_failure"
        /\ Has("alert_err") => Len(alerts) = snap.alerts
        /\ metrics.processing_failures = snap.m.processing_failures + 1
        /\ metrics.processing_success = snap.m.processing_success

C3_Witness == Handled /\ Has("scrape_none") /\ Has("alert_ok")

\* C4: on the happy path (scrape returned content C, the upsert took effect,
\* the produce and the commit were accepted) exactly one enriched envelope is
\* published to the cleaned topic, with full_content = C and keyed by the
\* message's link, the offset is committed exactly once, processing_success
\* grows by exactly 1 and no alert is published.
HappyPath == trace = <<"decoded", "scraped", "save_ok", "pub_ok", "commit_ok">>

C4_HappyPath ==
    (Handled /\ HappyPath) =>
        /\ enriched \in Contents
        /\ Len(cleaned) = snap.cleaned + 1
        /\ cleaned[Len(cleaned)].value.full_content = enriched
        /\ cleaned[Len(cleaned)].value.payload = log[cur]
        /\ cleaned[Len(cleaned)].key = log[cur].link
        /\ log[cur].link \in Links
        /\ Count(CommitEvents) = 1
        /\ committed = cur + 1
        /\ metrics.processing_success = snap.m.processing_success + 1
        /\ metrics.processing_failures = snap.m.processing_failures
        /\ Len(alerts) = snap.alerts /\ Count(AlertEvents) = 0

C4_Witness == Handled /\ HappyPath /\ enriched = "FULL2"

\* C5 (as claimed): when the upsert fails (the database operation raises) the
\* enriched envelope is not published, the offset is not committed for the
\* message, and the message ends counted in processing_failures with an alert
\* attempted.
C5_StorageFailureFailsMessage ==
    Has("save_err") =>
        /\ Count(PublishEvents) = 0
        /\ ~Has("commit_ok")
        /\ Handled =>
              /\ metrics.processing_failures = snap.m.processing_failures + 1
              /\ Count(AlertEvents) = 1

\* C6 (as claimed): if the produce of the enriched envelope raises after the
\* upsert succeeded, produce_errors grows by 1, the offset is committed,
\* processing_success grows by 1, processing_failures is unchanged and no alert
\* is published.
C6_PublishErrorThenCommitted ==
    (Handled /\ Has("save_ok") /\ Has("pub_err")) =>
        /\ metrics.produce_errors = snap.m.produce_errors + 1
        /\ Has("commit_ok") /\ committed = cur + 1
        /\ metrics.processing_success = snap.m.processing_success + 1
        /\ metrics.processing_failures = snap.m.processing_failures
        /\ Len(alerts) = snap.alerts

\* C6 (amended): if the produce of the enriched envelope raises after the
\* upsert succeeded, produce_errors grows by 1, the message is not routed to
\* FAILURE by it and the commit is still attempted; when that commit is
\* acknowledged the offset is committed, processing_success grows by 1,
\* processing_failures is unchanged and no alert is published; the message
\* fails only when the commit itself raises.
C6_PublishErrorNonFatal ==
    (Has("save_ok") /\ Has("pub_err")) =>
        /\ metrics.produce_errors = snap.m.produce_errors + 1
        /\ metrics.messages_produced = snap.m.messages_produced
        /\ Len(cleaned) = snap.cleaned
        /\ pc = "commit" \/ Count(CommitEvents) = 1
        /\ (Handled /\ Has("commit_ok")) =>
              /\ committed = cur + 1
              /\ metrics.processing_success = snap.m.processing_success + 1
              /\ metrics.processing_failures = snap.m.processing_failures
              /\ Len(alerts) = snap.alerts /\ Count(AlertEvents) = 0
        /\ (Handled /\ ~Has("commit_ok")) =>
              /\ Has("commit_err") /\ failCause = "commit error"
              /\ metrics.processing_success = snap.m.processing_success

C6_Witness == Handled /\ Has("save_ok") /\ Has("pub_err") /\ Has("commit_ok")

\* C7: a polled message whose value is not valid JSON, or is valid JSON but
\* not an object, never leaves the loop through an exception: it is routed to
\* the except branch, processing_failures grows by 1, nothing is scraped,
\* upserted or committed for it, and the loop is back at its head for the next
\* poll (it ends only where it would end after any message: shutdown flag or
\* reached limit).
C7_MalformedIsFailure ==
    (cur > 0 /\ Malformed(log[cur])) =>
        \/ pc = "decode" /\ trace = <<>>
        \/ pc = "except" /\ trace = <<"decode_err">>
        \/ /\ Len(trace) = 2 /\ trace[1] = "decode_err" /\ trace[2] \in AlertEvents
           /\ outcome[cur] = "FAILURE"
           /\ metrics.processing_failures = snap.m.processing_failures + 1
           /\ metrics.processing_success = snap.m.processing_success
           /\ store = snap.rows
           /\ committed = snap.committed
           /\ Len(cleaned) = snap.cleaned
           /\ \/ pc \in {"loop", "error_event"}
              \/ pc \in {"finally", "returned"} /\ (flag \/ LimitReached(processed))

C7_Witness ==
    /\ cur = 2 /\ pc = "decode" /\ Malformed(log[1]) /\ log[1].kind = "nonobject"
    /\ outcome[1] = "FAILURE"

\* C8 (as claimed): in one-shot mode with max_messages = N >= 1 the loop ends
\* once N messages have reached a terminal state, failures counted like
\* successes; it is not at the loop head or handling a message after that.
C8_StopsAfterNTerminal ==
    (~loop_forever /\ max_messages >= 1
        /\ metrics.processing_success + metrics.processing_failures >= max_messages)
    => pc \in {"finally", "returned"}

\* C9 (as claimed): when run_consumer(loop_forever=False, max_messages=N) has
\* returned having consumed N messages, the table holds a row keyed by the
\* link of each of them.
C9_RowForEveryConsumed ==
    (pc = "returned" /\ ~loop_forever /\ max_messages >= 1
        /\ metrics.messages_consumed = max_messages)
    => \A o \in startPos..(position - 1) :
          log[o].link \in Links => Matching(store, log[o].link) # {}

(***************************************************************************)
(* Properties of the storage.                                              *)
(***************************************************************************)
RECURSIVE FirstTruthy(_)
FirstTruthy(fcs) ==
    IF fcs = <<>> THEN None
    ELSE IF Truthy(Head(fcs)) THEN Head(fcs) ELSE FirstTruthy(Tail(fcs))

\* the full_content values of the calls that took effect for a link, in order
RECURSIVE FullContentsOf(_, _)
FullContentsOf(h, l) ==
    IF h = <<>> THEN <<>>
    ELSE IF Head(h).link = l
         THEN <<Head(h).full_content>> \o FullContentsOf(Tail(h), l)
         ELSE FullContentsOf(Tail(h), l)

\* C10: for calls with the same link, starting from no row: after a1 then a2
\* the stored full_content is a1's when that is non-empty, else a2's, and is
\* non-empty if either was (more generally it is the first non-empty
\* full_content applied); and a stored non-empty full_content is never changed
\* or cleared by a later call.
C10_FirstNonEmptyStored ==
    \A l \in Links :
        LET fcs == FullContentsOf(hist, l)
        IN  fcs # <<>> =>
               /\ Cardinality(Matching(store, l)) = 1
               /\ \A r \in Matching(store, l) :
                     /\ Truthy(FirstTruthy(fcs)) => r.full_content = FirstTruthy(fcs)
                     /\ ~Truthy(FirstTruthy(fcs)) => ~Truthy(r.full_content)
                     /\ Len(fcs) = 2 =>
                           IF Truthy(fcs[1]) THEN r.full_content = fcs[1]
                           ELSE IF Truthy(fcs[2]) THEN r.full_content = fcs[2]
                           ELSE ~Truthy(r.full_content)

C10_NonEmptyKept ==
    \A r \in store :
        Truthy(r.full_content) =>
            \A r2 \in Matching(store', r.link) : r2.full_content = r.full_content

C10_IdempotentFullContent == [](C10_FirstNonEmptyStored) /\ [][C10_NonEmptyKept]_vars

C10_Witness ==
    /\ Len(hist) = 2
    /\ hist[1].link = hist[2].link
    /\ hist[1].full_content = "FULL1"
    /\ hist[2].full_content = "FULL2"

(***************************************************************************)
(* C11: the table is keyed by link and save_article reports was_new.       *)
(***************************************************************************)
\* at most one row has a given link
UniqueLinks == \A l \in Links : Cardinality(Matching(store, l)) <= 1

\* the call this step made returned True exactly when no row had its link
\* before the call and a row has it after the call
ReturnsWasNew ==
    lastResult' = (/\ Matching(store, lastCall'.link) = {}
                   /\ Matching(store', lastCall'.link) # {})

\* a call whose article lacks a required key returns False and changes no row
MissingIsNoOp == lastCall'.title = Absent => (~lastResult' /\ store' = store)

\* C11: after any sequence of save_article calls at most one row is stored
\* per link; a call returns True exactly when no row with the link existed
\* before it and the insert succeeded; a call with a missing required field
\* returns False and leaves the table unchanged.
C11_UniqueAndWasNew ==
    /\ []UniqueLinks
    /\ [][ReturnsWasNew /\ MissingIsNoOp]_vars

\* two calls with the same link took effect, the first returned True (it is
\* in hist) and the last returned False, and one row is stored
C11_Witness ==
    /\ Len(hist) = 2
    /\ hist[1].link = hist[2].link
    /\ ~lastResult
    /\ lastCall.title # Absent
    /\ Cardinality(store) = 1

(***************************************************************************)
(* C12: a crash between the upsert and the commit, then a replay.          *)
(***************************************************************************)
\* the process that was started after the crash is running or has returned
Replaying == replay.off > 0 /\ pc # "down"

\* the full_content the row of the interrupted message had at the crash
ReplayContents == {r.full_content : r \in replay.rows}

\* C12: when the consumer is killed after save_article succeeded for a
\* message and before its commit, the restarted consumer starts at the
\* committed offset, which is not past the message, so the message is polled
\* and processed again; the table keeps exactly one row for its link, with
\* the full_content the first processing left.
C12_CrashReplay ==
    replay.off > 0 =>
        /\ Cardinality(Matching(store, replay.link)) = 1
        /\ \A r \in Matching(store, replay.link) : r.full_content \in ReplayContents
        /\ Cardinality(ReplayContents) = 1
        /\ Replaying => /\ startPos <= replay.off
                        /\ position > replay.off => cur >= replay.off

\* after the restart the interrupted message was polled again, its scrape
\* returned a different text, its upsert and commit succeeded, and the row
\* still has the text of the first processing
C12_Witness ==
    /\ Replaying
    /\ cur = replay.off
    /\ pc = "loop"
    /\ Has("save_ok")
    /\ Has("commit_ok")
    /\ enriched \notin ReplayContents
    /\ \E r \in store : r.link = replay.link /\ r.full_content \in ReplayContents

(***************************************************************************)
(* Properties of the async consumer.                                       *)
(***************************************************************************)
\* units awaiting the scrape (the executor runs fetch_full_articles for them)
InEnrichment == {o \in Offsets : units[o].st = "enriching"}

\* units inside "async with semaphore"
Holders == {o \in Offsets : units[o].st \in {"enriching", "publishing", "alerting"}}

Waiting == {o \in Offsets : units[o].st = "waiting"}

UnitsIn(S) == {o \in tasks : units[o].st \in S}

CommitCalled == commits' > commits

\* C14: for a poll that dispatched at least one unit consumer.commit is called
\* once, and only when every unit of the batch is in SUCCESS or FAILURE; no
\* commit is called while a unit of the batch is in flight, and none for a
\* poll that dispatched nothing.
C14_BatchCommit ==
    /\ [][CommitCalled => /\ tasks # {}
                          /\ \A o \in tasks : units[o].st \in Terminal
                          /\ commits = 0]_vars
    /\ [](tasks = {} => commits = 0)
    /\ [](pc = "gather" => commits = 0)
    /\ [](pc \in {"loop", "finally", "returned"} /\ tasks # {} => commits = 1)

\* a batch of several units, with a failure and a success, was committed
C14_Witness ==
    /\ commits = 1
    /\ committed = position
    /\ UnitsIn({"SUCCESS"}) # {}
    /\ UnitsIn({"FAILURE"}) # {}

\* a step of one unit leaves every other unit as it was
OneUnitPerStep ==
    \A o \in Offsets :
        (units[o].st # "idle" /\ units'[o] # units[o]) =>
            \A q \in Offsets \ {o} : units'[q] = units[q]

\* units are created waiting and move only forward, to SUCCESS or FAILURE
UnitMoves ==
    \A o \in Offsets :
        units'[o].st # units[o].st =>
            <<units[o].st, units'[o].st>> \in
                {<<"idle", "waiting">>, <<"waiting", "enriching">>,
                 <<"waiting", "alerting">>, <<"enriching", "alerting">>,
                 <<"enriching", "publishing">>, <<"publishing", "SUCCESS">>,
                 <<"alerting", "FAILURE">>}

\* no unit of the batch is held back: a waiting unit finds a free permit
NoUnitBlocked == Waiting # {} => sem > 0

\* the counters since the poll: one failure per unit in its except branch,
\* one success per unit that ended its try block
CountedPerUnit ==
    /\ metrics.processing_failures - snap.m.processing_failures
          = Cardinality(UnitsIn({"alerting", "FAILURE"}))
    /\ metrics.processing_success - snap.m.processing_success
          = Cardinality(UnitsIn({"SUCCESS"}))

\* the alerts published since the poll
NewAlerts == {i \in 1..Len(alerts) : i > snap.alerts}

\* every failed unit of the batch has published an alert envelope
AlertPerFailure == Cardinality(NewAlerts) = Cardinality(UnitsIn({"FAILURE"}))

\* every failed unit has published its alert envelope unless that send raised
AlertPerFailureSent ==
    /\ Cardinality(NewAlerts) = Cardinality({o \in UnitsIn({"FAILURE"}) :
                                                units[o].alert = "sent"})
    /\ \A i \in NewAlerts :
          \E o \in UnitsIn({"FAILURE"}) : alerts[i] = AlertPayload(units[o].err)
    /\ \A o \in UnitsIn({"FAILURE"}) : units[o].alert \in {"sent", "lost"}

\* C15 as stated: a failing unit does not stop the other units of its batch;
\* each failed unit adds exactly 1 to processing_failures and publishes its
\* own alert envelope, each successful unit adds exactly 1 to
\* processing_success.
C15_SiblingIsolationAlertPublished ==
    /\ [][OneUnitPerStep /\ UnitMoves]_vars
    /\ [](NoUnitBlocked /\ CountedPerUnit /\ AlertPerFailure)

\* C15 amended: the same, where the alert envelope of a failed unit is handed
\* to the producer once and is published unless that send raises (the error
\* is swallowed and no alert is published for the unit).
C15_SiblingIsolation ==
    /\ [][OneUnitPerStep /\ UnitMoves]_vars
    /\ [](NoUnitBlocked /\ CountedPerUnit /\ AlertPerFailureSent)

\* a unit failed while another unit of the batch was in flight, and that one
\* went on to SUCCESS
C15_Witness ==
    /\ pc = "gather"
    /\ GatherDone
    /\ \E o \in UnitsIn({"FAILURE"}), q \in UnitsIn({"SUCCESS"}) :
          /\ o < q
          /\ units[o].alert = "sent"
          /\ \E i \in 1..Len(cleaned) : /\ i > snap.cleaned
                                        /\ cleaned[i].key = log[q].link

\* C16: when the k units dispatched from a poll have all finished, in any
\* interleaving, messages_consumed has grown by exactly k and
\* processing_success + processing_failures has grown by exactly k.
C16_NoLostUpdates ==
    (tasks # {} /\ GatherDone) =>
        /\ metrics.messages_consumed - snap.m.messages_consumed = Cardinality(tasks)
        /\ (metrics.processing_success + metrics.processing_failures)
              - (snap.m.processing_success + snap.m.processing_failures)
              = Cardinality(tasks)

\* a full batch of N units has finished
C16_Witness ==
    /\ GatherDone
    /\ Cardinality(tasks) = CONCURRENCY
    /\ metrics.messages_consumed = CONCURRENCY
    /\ metrics.processing_success >= 1

\* C17: with max_messages set, every message whose offset a commit covers
\* was dispatched to process_message; a message getmany returned that was not
\* dispatched because the limit was reached is not covered by the commit.
C17_CommittedWasDispatched ==
    max_messages > 0 =>
        \A o \in Offsets : o < committed => units[o].st # "idle"

(***************************************************************************)
(* Properties of produce_batch.                                            *)
(***************************************************************************)
PCount(E) == Cardinality({i \in 1..Len(ptrace) : ptrace[i] \in E})

\* the first produce call for a record, and the calls that were accepted
FirstAttempts == {"accepted", "buffer", "error"}
Accepted == {"accepted", "retry_ok"}
FinalFlushes == {"final_flush", "final_flush_err"}

\* produce_errors increments since produce_batch was called
ProduceErrors == metrics.produce_errors - psnap.m.produce_errors

\* C18: for any batch and any pattern of publish failures produce_batch
\* visits every record, returns the number of records whose produce call was
\* accepted, and the returned count plus the produce_errors increments equals
\* the number of records fetched.
C18_ProduceBatchCount ==
    ppc = "returned" =>
        /\ PCount(FirstAttempts) = Len(records)
        /\ idx = Len(records) + 1
        /\ produced = PCount(Accepted)
        /\ produced = Len(raw) - psnap.raw
        /\ produced + ProduceErrors = Len(records)

\* a batch returned after one record was accepted and another failed with an
\* exception that is not BufferError
C18_Witness ==
    /\ ppc = "returned"
    /\ Len(records) = 2
    /\ ptrace[1] = "error"
    /\ produced = 1
    /\ ProduceErrors = 1

\* every BufferError is followed by one flush and one retry, and the retry by
\* the next record or the end of the loop
BufferHandled ==
    \A i \in 1..Len(ptrace) :
        ptrace[i] = "buffer" =>
            /\ i + 1 <= Len(ptrace) /\ ptrace[i + 1] = "flush"
            /\ i + 2 <= Len(ptrace) => ptrace[i + 2] \in {"retry_ok", "retry_err"}
            /\ i + 3 <= Len(ptrace) => ptrace[i + 3] \in FirstAttempts \cup FinalFlushes
            /\ i + 2 > Len(ptrace) => ppc = "retry"

\* the retry step: accepted and counted as produced, or one produce error;
\* either way the loop is at the next record
RetryCounted ==
    ppc = "retry" =>
        /\ idx' = idx + 1
        /\ ppc' \in {"produce", "flush"}
        /\ \/ /\ produced' = produced + 1
              /\ metrics'.produce_errors = metrics.produce_errors
              /\ raw' = Append(raw, RawRecord(records[idx]))
           \/ /\ produced' = produced
              /\ metrics'.produce_errors = metrics.produce_errors + 1
              /\ raw' = raw

\* C19: when a publish raises BufferError produce_batch flushes once and
\* retries that publish once; a retry that succeeds is counted as produced,
\* one that raises as one produce error, and the loop continues with the next
\* record in both cases.
C19_BufferErrorRetry ==
    /\ []BufferHandled
    /\ [][RetryCounted]_vars

\* a batch returned in which the retry of the first record raised and the
\* retry of the second record was accepted
C19_Witness ==
    /\ ppc = "returned"
    /\ Len(ptrace) >= 6
    /\ ptrace[1] = "buffer" /\ ptrace[3] = "retry_err"
    /\ ptrace[4] = "buffer" /\ ptrace[6] = "retry_ok"
    /\ produced = 1

\* C20: produce_batch flushes the producer after the last record and before
\* it returns, on every path through the record loop: batches where some or
\* all publishes failed, and empty batches.
C20_FlushBeforeReturn ==
    ppc = "returned" =>
        /\ ptrace # <<>>
        /\ ptrace[Len(ptrace)] \in FinalFlushes
        /\ PCount(FinalFlushes) = 1
        /\ PCount(FirstAttempts) = Len(records)

\* a batch whose every publish failed has returned
C20_Witness ==
    /\ ppc = "returned"
    /\ Len(records) = MaxRecords
    /\ produced = 0
    /\ ptrace[Len(ptrace)] \in FinalFlushes

\* the message this step published is keyed by the link of the record the
\* loop is at and carries that link
PublishedKeyedByLink ==
    raw' # raw =>
        /\ Len(raw') = Len(raw) + 1
        /\ \A i \in 1..Len(raw) : raw'[i] = raw[i]
        /\ raw'[Len(raw')].key = records[idx].link
        /\ raw'[Len(raw')].value.link = records[idx].link

\* no publish of the call failed
NoPublishFailure == \A i \in 1..Len(ptrace) : ptrace[i] \in {"accepted"} \cup FinalFlushes

\* C21: every message produce_batch publishes is keyed by the link of the
\* record it was built from and carries that link in its envelope; for a
\* fetch result of k records and no publish failure exactly k messages are
\* published, one per record in order, and k is returned.
C21_KeyedByLink ==
    /\ [][PublishedKeyedByLink]_vars
    /\ [](\A i \in 1..Len(raw) : raw[i].key = raw[i].value.link)
    /\ []((ppc = "returned" /\ NoPublishFailure) =>
            /\ produced = Len(records)
            /\ Len(raw) - psnap.raw = Len(records)
            /\ \A i \in 1..Len(records) : raw[psnap.raw + i].key = records[i].link)

\* a batch of two records with different links was published whole
C21_Witness ==
    /\ ppc = "returned"
    /\ NoPublishFailure
    /\ Len(records) = 2
    /\ records[1].link # records[2].link
    /\ produced = 2
    /\ raw[Len(raw)].key = records[2].link

(***************************************************************************)
(* The producer's polling loop                                             *)
(***************************************************************************)
\* a step of the polling loop taken with the shutdown flag already set
AfterShutdown == flag /\ mode = "poll"

\* C22: once the flag is set during the inter-batch sleep, no further
\* 1-second increment is started (only the one in progress completes), the
\* sleep loop is left at its next test, the loop test then ends the loop and
\* produce_batch is not called again, whatever the number of increments left
C22_ShutdownLatency ==
    [][AfterShutdown =>
          /\ ~(ppc' = "sleeping" /\ ppc # "sleeping")
          /\ calls' = calls
          /\ (ppc = "sleeping" => ppc' = "sleep")
          /\ (ppc = "sleep" => ppc' = "while")
          /\ (ppc = "while" => ppc' = "done")]_vars

\* the loop has ended on the flag with sleep increments left over
C22_Witness == ppc = "done" /\ flag /\ remaining > 0 /\ mode = "poll"

\* C23: an exception of produce_batch does not end the polling loop: without
\* the flag the loop goes on to the inter-batch sleep, and the loop test after
\* the sleep calls produce_batch again; the loop ends only on the flag
C23_SurvivesBatchFailure ==
    /\ [](mode = "poll" /\ ppc = "done" => flag)
    /\ [][mode = "poll" /\ ~flag /\ ~flag' =>
            /\ (ppc = "raised" => ppc' = "sleep" /\ remaining' \in 0..MaxSleep)
            /\ (ppc = "sleep" /\ remaining = 0 => ppc' = "while")
            /\ (ppc = "while" /\ ppc' # "while" =>
                   calls' = calls + 1 /\ ppc' \in {"produce", "flush", "raised"})]_vars

\* the call after a failed batch has been made and has fetched its articles
C23_Witness ==
    /\ mode = "poll"
    /\ calls = 2
    /\ lastEnd = "raised"
    /\ ppc \in {"produce", "flush"}
    /\ ~flag

(***************************************************************************)
(* Shutdown of the polling loops                                           *)
(***************************************************************************)
\* C24: once the shutdown flag is set, no loop starts a new unit of work: no
\* message is polled, no batch is fetched from the broker, no error event is
\* taken, produce_batch is not called; a loop that is at its test ends, so
\* the work in progress when the flag was set is the last
C24_NoNewWorkAfterShutdown ==
    [][flag =>
          /\ position' = position
          /\ polled' = polled
          /\ tasks' = tasks
          /\ calls' = calls
          /\ pc' # "error_event" \/ pc = "error_event"
          /\ (mode \in {"sync", "async"} /\ pc = "loop" => pc' = "finally")
          /\ (mode = "poll" /\ ppc \in {"idle", "while"} => ppc' = "done")]_vars

\* the sync consumer has returned on the flag, with messages left on the
\* partition and a message handled
C24_Witness ==
    /\ mode = "sync"
    /\ flag
    /\ pc = "returned"
    /\ loop_forever
    /\ cur > 0
    /\ position <= Len(log)

C24_WitnessAsync ==
    /\ mode = "async"
    /\ flag
    /\ pc = "returned"
    /\ max_messages = 0
    /\ tasks # {}
    /\ position <= Len(log)

C24_WitnessPoll ==
    /\ mode = "poll"
    /\ flag
    /\ ppc = "done"
    /\ calls = 1

\* C25 (as claimed): whenever run_consumer or run_async_consumer has ended,
\* by returning or by propagating an exception, the producer was flushed or
\* stopped, the consumer closed and the storage closed
C25_ResourcesReleased ==
    (mode \in {"sync", "async"} /\ pc = "returned") => released = Handles

(***************************************************************************)
(* The async consumer's batch commit and failed units                      *)
(***************************************************************************)
\* the batch commit was called and moved the committed offset
BatchCommitted == commits' > commits /\ committed' # committed

\* C26: the commit issued after a batch covers the offset of every unit
\* dispatched for the batch, the units that ended in FAILURE included: their
\* offsets are below the committed offset, where a restarted consumer resumes
C26_FailedUnitsCommitted ==
    [][BatchCommitted =>
          /\ \A o \in tasks : units[o].st \in Terminal /\ o < committed'
          /\ \A o \in tasks : units[o].st = "FAILURE" => o < committed']_vars

\* a batch whose units all failed has been committed
C26_Witness ==
    /\ mode = "async"
    /\ commits = 1
    /\ tasks # {}
    /\ \A o \in tasks : units[o].st = "FAILURE" /\ o < committed

(***************************************************************************)
(* A failed message whose alert cannot be published                        *)
(***************************************************************************)
\* the sync consumer's except branch ends with the alert publish raising
AlertLostSync == mode = "sync" /\ pc = "except" /\ trace' = Append(trace, "alert_err")

\* the async unit o ends with its alert publish raising
AlertLostAsync(o) ==
    mode = "async" /\ units[o].st = "alerting" /\ units'[o].alert = "lost"

\* C27: when the alert publish of a failed message raises, the error is
\* swallowed: the message is a FAILURE counted once in processing_failures,
\* its handling commits nothing and publishes nothing, the loop goes on (it
\* ends only by its own limit test) and no other message's outcome changes
C27_AlertFireAndForget ==
    /\ [][AlertLostSync =>
             /\ metrics' = Bump(metrics, "processing_failures")
             /\ committed' = committed /\ alerts' = alerts /\ cleaned' = cleaned
             /\ store' = store /\ position' = position
             /\ pc' = AfterMessage(processed)
             /\ outcome'[cur] = "FAILURE"
             /\ \A q \in Offsets \ {cur} : outcome'[q] = outcome[q]]_vars
    /\ [](mode = "sync" /\ Handled /\ Has("alert_err") =>
             /\ metrics.processing_failures = snap.m.processing_failures + 1
             /\ metrics.processing_success = snap.m.processing_success
             /\ committed = snap.committed
             /\ Count(AlertEvents) = 1)
    /\ [][\A o \in Offsets : AlertLostAsync(o) =>
             /\ metrics' = metrics
             /\ committed' = committed /\ alerts' = alerts /\ cleaned' = cleaned
             /\ store' = store /\ position' = position
             /\ pc' = pc /\ pc = "gather"
             /\ units'[o].st = "FAILURE" /\ outcome'[o] = "FAILURE"
             /\ \A q \in Offsets \ {o} : units'[q] = units[q] /\ outcome'[q] = outcome[q]]_vars
    /\ [](mode = "async" => CountedPerUnit)

\* the sync consumer has handled a failed message whose alert was lost and
\* polled the next message
C27_Witness ==
    /\ mode = "sync"
    /\ cur = 2 /\ pc = "decode"
    /\ outcome[1] = "FAILURE"
    /\ Len(alerts) = 0
    /\ committed = startPos

\* an async batch with a failed unit whose alert was lost and a successful unit
C27_WitnessAsync ==
    /\ mode = "async"
    /\ \E o \in tasks : units[o].st = "FAILURE" /\ units[o].alert = "lost"
    /\ \E o \in tasks : units[o].st = "SUCCESS"

(***************************************************************************)
(* An error event returned by poll                                         *)
(***************************************************************************)
\* what handling a message can change: offsets, topics, table, counters, the
\* per-message history
MessageEffects ==
    <<committed, cleaned, alerts, store, hist, metrics, position, processed, cur,
      trace, outcome, enriched, failCause>>

\* C28: a poll that returns an error event leads to no commit, no scrape, no
\* upsert, no publish and no alert and leaves every counter as it was; the
\* event is logged and the loop continues with its test
C28_ErrorEventSkipped ==
    /\ [][pc' = "error_event" /\ pc # "error_event" =>
             pc = "loop" /\ UNCHANGED MessageEffects]_vars
    /\ [][pc = "error_event" =>
             pc' \in {"error_event", "loop"} /\ UNCHANGED MessageEffects]_vars

\* poll has returned an error event after a message was handled, with
\* messages left on the partition
C28_Witness ==
    /\ mode = "sync"
    /\ pc = "error_event"
    /\ cur = 1
    /\ outcome[1] = "SUCCESS"
    /\ position <= Len(log)

(***************************************************************************)
(* to_json and from_json                                                   *)
(***************************************************************************)
\* C29: from_json(to_json(x)) is x, field for field, for every envelope x
\* whose fields are texts: same keys, and each value the same text
C29_RoundTrip ==
    cpc = "roundtrip" =>
        /\ decoded.t = "object"
        /\ DOMAIN decoded.v = FieldNames
        /\ \A k \in FieldNames : decoded.v[k] = [t |-> "string", v |-> env[k]]
        /\ decoded = DictOf(env)

\* an envelope with a non-ASCII character and an escaped character in one
\* field has made the round trip
C29_Witness ==
    /\ cpc = "roundtrip"
    /\ \E k \in FieldNames :
          /\ Len(env[k]) = 2
          /\ \E i \in 1..2 : env[k][i] > 127
          /\ \E i \in 1..2 : env[k][i] \in {34, 92, 10, 1}

\* C30 (as claimed): from_json returns a mapping only for a JSON object and
\* fails for every other input, valid JSON or not
C30_RejectsNonObjects ==
    cpc = "decoded" =>
        decoded.t \in {"object", "JSONDecodeError", "UnicodeDecodeError"}

(***************************************************************************)
(* The enriched envelope                                                   *)
(***************************************************************************)
\* C31: the record published to the cleaned topic has every field of the
\* consumed raw envelope with its value, plus full_content (the scraped text)
\* and enriched_at, and nothing else; of any payload, every key other than
\* the two added ones is kept with its value
C31_EnrichedIsSuperset ==
    cpc = "built" =>
        /\ DOMAIN decoded = DOMAIN env \cup AddedKeys
        /\ \A k \in DOMAIN env \ AddedKeys : decoded[k] = env[k]
        /\ decoded["full_content"] = wire[1]
        /\ decoded["enriched_at"] = wire[2]
        /\ DOMAIN env = RawKeys =>
              /\ \A k \in RawKeys : decoded[k] = env[k]
              /\ DOMAIN decoded = RawKeys \cup AddedKeys

\* the record for a producer's envelope has been built
C31_Witness ==
    /\ cpc = "built"
    /\ mode = "enrich"
    /\ DOMAIN env = RawKeys
    /\ env["id"] = "b"
    /\ decoded["full_content"] = "FULL2"

(***************************************************************************)
(* The consumers' configuration                                            *)
(***************************************************************************)
\* C32 (as claimed): whatever config argument the caller passes, the consumer
\* is created with automatic offset commit disabled, earliest offset reset
\* and the caller's group id
C32_ConsumerConfig ==
    cpc = "configured" =>
        /\ decoded[AutoCommitKey(wire[1])] = "False"
        /\ decoded[ResetKey(wire[1])] = "earliest"
        /\ decoded[GroupKey(wire[1])] = wire[2]

(***************************************************************************)
(* Shutdown of the async consumer with a batch in flight                   *)
(***************************************************************************)
\* the flag is set while gather waits for the units of the batch
ShutdownInFlight == mode = "async" /\ flag /\ pc = "gather"

\* C33: when the flag is set while a batch is in flight, every dispatched
\* unit still reaches SUCCESS or FAILURE by its own steps (none is cancelled,
\* the batch keeps its units), the batch commit is issued, and only then are
\* producer and consumer stopped
C33_InFlightWorkFinishes ==
    /\ ShutdownInFlight ~> (commits = 1 /\ \A o \in tasks : units[o].st \in Terminal)
    /\ [][ShutdownInFlight => OneUnitPerStep /\ UnitMoves /\ tasks' = tasks]_vars
    /\ [](mode = "async" /\ released # {} /\ tasks # {} =>
             commits = 1 /\ \A o \in tasks : units[o].st \in Terminal)

\* the flag was set while gather was waiting (GetMany does not start with a set
\* flag), and the two units of the batch have ended, one each way
C33_Witness ==
    /\ ShutdownInFlight
    /\ GatherDone
    /\ commits = 0
    /\ \E o \in tasks : units[o].st = "SUCCESS"
    /\ \E o \in tasks : units[o].st = "FAILURE"

(***************************************************************************)
(* The shutdown flag                                                       *)
(***************************************************************************)
\* C34: ShutdownFlag.triggered is false at the start, it changes only in a
\* step of ShutdownFlag.set, and no step of the producer loop or of the two
\* consumers takes it back from true to false
C34_FlagMonotone ==
    /\ ~flag
    /\ [][flag' # flag => SetFlag]_vars
    /\ [][flag => flag']_vars

\* the async consumer has gone through its commit and its finally block after
\* the flag was set, and the flag is still set
C34_Witness ==
    /\ flag
    /\ mode = "async"
    /\ pc = "returned"
    /\ released = Handles
    /\ commits = 1

(***************************************************************************)
(* Deduplication and the keys of one batch                                 *)
(***************************************************************************)
\* the links of a sequence of articles are pairwise different
DistinctLinks(arts) ==
    \A i, j \in 1..Len(arts) : i # j => arts[i].link # arts[j].link

\* the keys of the messages on the raw topic are pairwise different
DistinctKeys == \A i, j \in 1..Len(raw) : i # j => raw[i].key # raw[j].key

\* C35: with the deduplicator of fetch_multiple_feeds shared by the
\* categories, the mapping holds no two articles with one link, each
\* deduplicate_articles call splits its input into unique articles and
\* counted duplicates, and the messages one produce_batch call publishes have
\* pairwise different link keys
C35_NoDuplicateKeys ==
    mode = "fetch" =>
        /\ DistinctLinks(_flatten_articles(all_articles))
        /\ lastDedup.unique + lastDedup.duplicates = lastDedup.input
        /\ DistinctLinks(records)
        /\ DistinctKeys

\* two categories have been fetched, a link of the first was met again in the
\* second and dropped there, and both remaining articles were published
C35_Witness ==
    /\ mode = "fetch"
    /\ ppc = "returned"
    /\ Len(all_articles) = 2
    /\ fstats.total_articles = 4
    /\ fstats.total_duplicates = 2
    /\ Len(raw) = 2

(***************************************************************************)
(* Counters of the sync consumer                                           *)
(***************************************************************************)
\* messages whose handling has ended, by the counters
Settled == metrics.processing_success + metrics.processing_failures

\* run_consumer is between two messages, or has left the loop
AtLoopBoundary == pc \in {"loop", "error_event", "finally", "returned"}

\* C36: at every loop boundary of run_consumer messages_consumed =
\* processing_success + processing_failures; while a message is handled it is
\* the one consumed message not yet counted, and a step counts it once, as a
\* success or as a failure, also when the commit raised after the publish
C36_MetricConservation ==
    /\ [](mode = "sync" /\ AtLoopBoundary => metrics.messages_consumed = Settled)
    /\ [](mode = "sync" /\ ~AtLoopBoundary /\ pc # "down" =>
             metrics.messages_consumed = Settled + 1)
    /\ [][mode = "sync" /\ pc' # "down" /\ Settled' # Settled =>
             /\ Settled' = Settled + 1
             /\ metrics'.processing_success >= metrics.processing_success
             /\ metrics'.processing_failures >= metrics.processing_failures
             /\ AtLoopBoundary']_vars

\* the enriched envelope of the one message was published, the commit raised,
\* and the message is counted as a failure only
C36_Witness ==
    /\ mode = "sync"
    /\ pc = "loop"
    /\ Has("pub_ok")
    /\ Has("commit_err")
    /\ Len(cleaned) = 1
    /\ metrics.messages_consumed = 1
    /\ metrics.processing_success = 0
    /\ metrics.processing_failures = 1

(***************************************************************************)
(* The one-shot limit of the async consumer                                *)
(***************************************************************************)
\* lines 126-134 as written, for the batches of several partitions: the inner
\* loop over one partition's batch stops at the limit, and so does the outer
\* loop; sizes are the batch lengths in msgs.items() order, n is processed
RECURSIVE DispatchBatches(_, _, _)
DispatchBatches(sizes, i, n) ==
    IF i > Len(sizes) THEN 0
    ELSE LET d == IF max_messages > 0
                  THEN Min(sizes[i], IF n >= max_messages THEN 0 ELSE max_messages - n)
                  ELSE sizes[i]
         IN  IF max_messages > 0 /\ n + d >= max_messages
             THEN d
             ELSE d + DispatchBatches(sizes, i + 1, n + d)

\* however getmany spreads k records over two partitions, the nested loops
\* dispatch as many units as the count the model uses
PartitionsAgree ==
    \A k \in 0..CONCURRENCY : \A k1 \in 0..k :
        DispatchBatches(<<k1, k - k1>>, 1, processed) = DispatchCount(k, processed)

\* C37: with max_messages = N > 0 the number of dispatched units (processed)
\* never exceeds N, a batch dispatches exactly the units the counter grows by,
\* whatever the split into partitions, and once N units are dispatched no
\* further batch is polled: the loop is left after that batch
C37_DispatchBound ==
    /\ [](mode = "async" /\ max_messages > 0 => processed <= max_messages)
    /\ [](mode = "async" /\ pc \in {"loop", "gather"} => PartitionsAgree)
    /\ [](mode = "async" /\ max_messages > 0 /\ processed >= max_messages => pc # "loop")
    /\ [][mode = "async" /\ processed' # processed =>
             /\ pc = "loop" /\ pc' = "gather"
             /\ Cardinality(tasks') = processed' - processed]_vars
    /\ [][mode = "async" /\ max_messages > 0 /\ processed >= max_messages /\ pc = "gather"
             => pc' \in {"gather", "finally"}]_vars

\* getmany returned two records with one unit left to the limit: one unit was
\* dispatched, the batch has ended and the consumer has returned
C37_Witness ==
    /\ mode = "async"
    /\ max_messages = 1
    /\ processed = 1
    /\ Cardinality(polled) = 2
    /\ Cardinality(tasks) = 1
    /\ pc = "returned"

(***************************************************************************)
(* Storage upserts on the event loop                                       *)
(***************************************************************************)
\* the units inside storage.save_article
Saving == {o \in tasks : units[o].st = "saving"}

\* C38: at most one storage.save_article call is executing at any time: the
\* unit inside it holds the loop's thread, and until the call returns no
\* other unit is started or resumed (only scrapes on executor threads end)
C38_UpsertsNeverOverlap ==
    /\ [](mode = "eventloop" => Cardinality(Saving) <= 1)
    /\ [](mode = "eventloop" => Saving = IF running = 0 THEN {} ELSE {running})
    /\ [][mode = "eventloop" /\ Saving # {} =>
             \A o \in Offsets \ Saving :
                 units'[o] # units[o] =>
                     units[o].st = "enriching" /\ units'[o].st = "ready"]_vars

\* two units run concurrently: one is inside save_article while the scrape of
\* the other has ended and its task waits for the loop's thread
C38_Witness ==
    /\ mode = "eventloop"
    /\ Cardinality(Saving) = 1
    /\ \E o \in tasks : units[o].st = "ready" /\ units[o].err = None
    /\ sem = 0

(***************************************************************************)
(* retry                                                                   *)
(***************************************************************************)
\* positions in the history of retry of the calls of func, of those that
\* raised, and of the sleeps
FuncCalls == {i \in 1..Len(rstate.events) : rstate.events[i].kind # "sleep"}
FailedCalls == {i \in 1..Len(rstate.events) : rstate.events[i].kind \in {"exc", "base"}}
Sleeps == {i \in 1..Len(rstate.events) : rstate.events[i].kind = "sleep"}

RetryEnded == rstate.rpc \in {"returned", "raised"}

\* C39: retry calls func at most `attempts` times; it returns the value of
\* the first call that does not raise and calls no more; it sleeps exactly
\* between a failed call and the next call, never after the last call; when
\* all `attempts` calls raised it raises the exception of the last call; for
\* attempts >= 1 it returns only a value func returned
C39_Retry ==
    mode = "retry" =>
        /\ Cardinality(FuncCalls) <= rstate.attempts
        /\ \A i \in FuncCalls :
              rstate.events[i].kind = "ok" =>
                  /\ i = Len(rstate.events)
                  /\ rstate.rpc = "returned"
                  /\ rstate.result.kind = "value"
                  /\ rstate.result.what = rstate.events[i].what
                  /\ \A j \in FuncCalls : j < i => rstate.events[j].kind = "exc"
        /\ \A i \in Sleeps :
              /\ i > 1 /\ rstate.events[i - 1].kind = "exc"
              /\ i = Len(rstate.events) => rstate.rpc = "call"
              /\ i < Len(rstate.events) => rstate.events[i + 1].kind # "sleep"
        /\ \A i \in FuncCalls :
              i > 1 => rstate.events[i - 1].kind = "sleep"
        /\ (RetryEnded /\ Cardinality(FailedCalls) = rstate.attempts /\ rstate.attempts >= 1 =>
              /\ rstate.rpc = "raised"
              /\ rstate.result.kind = "exception"
              /\ rstate.result.of = rstate.attempts
              /\ rstate.events[Len(rstate.events)].kind \in {"exc", "base"}
              /\ rstate.events[Len(rstate.events)].of = rstate.attempts
              /\ rstate.result.what = rstate.events[Len(rstate.events)].what)
        /\ (rstate.rpc = "returned" /\ rstate.attempts >= 1 =>
              /\ rstate.result.kind = "value"
              /\ rstate.result.what \in FuncValues
              /\ rstate.events[Len(rstate.events)].kind = "ok")

\* func raised in every one of three calls: two sleeps lie between the calls
\* and the third exception is raised
C39_Witness ==
    /\ mode = "retry"
    /\ rstate.attempts = 3
    /\ rstate.rpc = "raised"
    /\ Cardinality(FailedCalls) = 3
    /\ Cardinality(Sleeps) = 2
    /\ rstate.result.of = 3
    /\ rstate.result.what = "KafkaException"
    /\ rstate.events[1].what = "BufferError"

============================================================================
